---- MODULE Spec2Model ----
(***************************************************************************)
(* Race timing pipeline of danielcrow/RaceTiming:                          *)
(*   tag_detection.py  TagBuffer / TagDetectionManager (detection buffer)  *)
(*   race_control.py   RaceControl (routing, sequencing, results, ranking) *)
(*                                                                         *)
(* Time is counted in ticks of the datetime resolution.  Wall-clock reads  *)
(* (time.time()) and observation timestamps are whole ticks; the peak      *)
(* estimate of the quadratic fit is a rational <<numerator, denominator>>. *)
(***************************************************************************)
EXTENDS Integers, Sequences, FiniteSets, TLC

VARIABLES
    now,                 \* time.time(), the wall clock
    active,              \* RaceControl.active
    detection_modes,     \* TagDetectionManager.detection_modes [tp -> mode | "unconfigured"]
    tag_buffers,         \* TagDetectionManager.buffers         [tp -> TagBuffer]
    race,                \* the Race row: start_time, start_mode, age_groups
    participants,        \* the participants table joined with race_participants [id -> row]
    timing_points,       \* the timing_points table of the race [id -> row]
    time_records,        \* the time_records table, in insertion (id) order
    results,             \* the race_results table, in insertion (id) order
    produced,            \* detections returned by the detection buffer so far [tp -> [epc -> Nat]]
    submitted,           \* reads handed to TagBuffer.add_read so far       [tp -> [epc -> Nat]]
    last,                \* the last call made, its arguments and what it returned
    threads,             \* where each thread delivering a detection stands in _process_finalized_tag
    readers,             \* the LLRPReader of each station: running, sock, position of _read_loop
    services             \* the RFIDReaderService of each station: running, connector, position

vars == <<now, active, detection_modes, tag_buffers, race, participants, timing_points,
          time_records, results, produced, submitted, last, threads, readers, services>>

mgrVars == <<detection_modes, tag_buffers>>
cfgVars == <<race, participants, timing_points>>
dbVars  == <<race, participants, timing_points, time_records, results>>
logVars == <<produced, submitted>>
ioVars  == <<threads, readers, services>>

\* Python None, and a value that is present: None = <<>>, x = <<x>>
None == <<>>
Some(x) == <<x>>
Val(o) == o[1]

-----------------------------------------------------------------------------
(* Bounds of the model *)

MaxTime    == 2      \* the wall clock runs 0..MaxTime
MaxReads   == 3      \* reads handed to the detection buffer in one behaviour
MaxRecords == 3      \* rows of time_records in one behaviour
NumParticipants == 3 \* rows of the participants table
UtcOffset  == 1      \* local time minus UTC, in ticks (datetime.fromtimestamp)

(* Program constants *)
DefaultWindow == 3   \* window_seconds default
DefaultRssi   == 0 - 50
max_iterations == 10

Times == 0..MaxTime

Participants   == 1..NumParticipants
TimingPointIds == 1..3
\* The EPC of participant p is p (participants.rfid_tag is unique); 0 is a tag of nobody
Epcs == {0} \cup Participants

-----------------------------------------------------------------------------
(* Rational numbers <<n, d>> with d > 0, kept in lowest terms *)

Abs(x) == IF x < 0 THEN 0 - x ELSE x

RECURSIVE Gcd(_, _)
Gcd(a, b) == IF b = 0 THEN a ELSE Gcd(b, a % b)

Rat(n, d) ==
    LET s == IF d < 0 THEN 0 - 1 ELSE 1
        g == Gcd(Abs(n), Abs(d))
    IN  <<(s * n) \div g, (s * d) \div g>>

RInt(n)      == <<n, 1>>
RAdd(p, q)   == Rat(p[1] * q[2] + q[1] * p[2], p[2] * q[2])
RSub(p, q)   == Rat(p[1] * q[2] - q[1] * p[2], p[2] * q[2])
RMul(p, q)   == Rat(p[1] * q[1], p[2] * q[2])
RDiv(p, q)   == Rat(p[1] * q[2], p[2] * q[1])
RLess(p, q)  == p[1] * q[2] < q[1] * p[2]
RLeq(p, q)   == p[1] * q[2] <= q[1] * p[2]
RMin(p, q)   == IF RLess(q, p) THEN q ELSE p
RMax(p, q)   == IF RLess(p, q) THEN q ELSE p

-----------------------------------------------------------------------------
(* Sequence helpers *)

Range(s) == {s[i] : i \in DOMAIN s}

SelectIdx(s, P(_)) == {i \in DOMAIN s : P(s[i])}

\* Python max(seq, key=k): the first element whose key is maximal
FirstMaxBy(s, k(_)) ==
    LET best == {i \in DOMAIN s : \A j \in DOMAIN s : k(s[j]) <= k(s[i])}
    IN  s[CHOOSE i \in best : \A j \in best : i <= j]

\* list.sort(key=...) / ORDER BY with ties in list order: a stable sort
StableSort(s, Less(_, _)) ==
    LET n == Len(s)
        pos(i) == 1 + Cardinality({j \in 1..n :
                        Less(s[j], s[i]) \/ (~Less(s[i], s[j]) /\ j < i)})
    IN  [k \in 1..n |-> s[CHOOSE i \in 1..n : pos(i) = k]]

RECURSIVE SumSeq(_)
SumSeq(s) == IF s = <<>> THEN 0 ELSE Head(s) + SumSeq(Tail(s))

-----------------------------------------------------------------------------
(* tag_detection.py: TagBuffer *)

Modes == {"first_seen", "last_seen", "peak_rssi"}

\* A finalized detection, the tuple (epc, final_timestamp, rssi)
Detection(epc, timestamp, rssi) == [epc |-> epc, timestamp |-> timestamp, rssi |-> rssi]

\* the fallback taking the read of greatest timestamp for the one of greatest rssi
MaxRssiRead_latest(epc, reads) ==
    LET max_read == FirstMaxBy(reads, LAMBDA r : r.timestamp)
    IN  Detection(epc, RInt(max_read.timestamp), RInt(max_read.rssi))

\* max(reads, key=lambda r: r.rssi), reported with its own timestamp and rssi
MaxRssiRead(epc, reads) ==
    LET max_read == FirstMaxBy(reads, LAMBDA r : r.rssi)
    IN  Detection(epc, RInt(max_read.timestamp), RInt(max_read.rssi))

Det3(a1, a2, a3, b1, b2, b3, c1, c2, c3) ==
    a1 * (b2 * c3 - b3 * c2) - a2 * (b1 * c3 - b3 * c1) + a3 * (b1 * c2 - b2 * c1)

\* np.polyfit(t_normalized, rssi_values, 2) in exact arithmetic.
\* Result: [ok |-> FALSE] when the fit raises, else the coefficients a, b, c.
\*  - three or more distinct abscissae: the unique least-squares parabola
\*  - two distinct abscissae 0 and d: the minimum-norm solution of the column-scaled
\*    system, a = m/(2d), b = m/2, c = c0 for the least-squares line m*t + c0
\*  - one abscissa: the column scaling divides by zero and lstsq raises
Polyfit2(xs, ys) ==
    LET n  == Len(xs)
        I  == 1..n
        Pw(x, k) == IF k = 0 THEN 1 ELSE x ^ k
        S(k) == SumSeq([i \in I |-> Pw(xs[i], k)])
        T(k) == SumSeq([i \in I |-> Pw(xs[i], k) * ys[i]])
        distinct == {xs[i] : i \in I}
        D  == Det3(S(4), S(3), S(2), S(3), S(2), S(1), S(2), S(1), S(0))
        Da == Det3(T(2), S(3), S(2), T(1), S(2), S(1), T(0), S(1), S(0))
        Db == Det3(S(4), T(2), S(2), S(3), T(1), S(1), S(2), T(0), S(0))
        Dc == Det3(S(4), S(3), T(2), S(3), S(2), T(1), S(2), S(1), T(0))
        d  == CHOOSE x \in distinct : x # 0
        at0 == {i \in I : xs[i] = 0}
        atd == {i \in I : xs[i] # 0}
        sum0 == SumSeq([i \in I |-> IF xs[i] = 0 THEN ys[i] ELSE 0])
        sumd == SumSeq([i \in I |-> IF xs[i] # 0 THEN ys[i] ELSE 0])
        c0 == Rat(sum0, Cardinality(at0))
        m  == RDiv(RSub(Rat(sumd, Cardinality(atd)), c0), RInt(d))
    IN  IF Cardinality(distinct) >= 3
        THEN [ok |-> TRUE, a |-> Rat(Da, D), b |-> Rat(Db, D), c |-> Rat(Dc, D)]
        ELSE IF Cardinality(distinct) = 2
        THEN [ok |-> TRUE, a |-> RDiv(m, RInt(2 * d)), b |-> RDiv(m, RInt(2)), c |-> c0]
        ELSE [ok |-> FALSE]

SeqMin(s) == CHOOSE x \in Range(s) : \A y \in Range(s) : x <= y
SeqMax(s) == CHOOSE x \in Range(s) : \A y \in Range(s) : y <= x

\* _calculate_peak_rssi, the vertex of the fitted parabola: the peak time is
\* clamped to the read window, the peak rssi is taken at the unclamped vertex
ParabolaPeak(epc, fit, t_min, t_max, t_peak_normalized) ==
    Detection(epc,
              RMax(RInt(t_min), RMin(RAdd(t_peak_normalized, RInt(t_min)), RInt(t_max))),
              RAdd(RAdd(RMul(fit.a, RMul(t_peak_normalized, t_peak_normalized)),
                        RMul(fit.b, t_peak_normalized)), fit.c))

\* _calculate_peak_rssi, after the fit
FittedPeak(epc, reads, fit, t_min, t_max) ==
    IF ~fit.ok THEN MaxRssiRead(epc, reads)                      \* except Exception
    ELSE IF RLeq(RInt(0), fit.a) THEN MaxRssiRead(epc, reads)    \* a >= 0
    ELSE ParabolaPeak(epc, fit, t_min, t_max,
                      RDiv(RSub(RInt(0), fit.b), RMul(RInt(2), fit.a)))

\* TagBuffer._calculate_peak_rssi
_calculate_peak_rssi(epc, reads) ==
    IF Len(reads) < 3
    THEN MaxRssiRead(epc, reads)
    ELSE
      LET timestamps   == [i \in DOMAIN reads |-> reads[i].timestamp]
          rssi_values  == [i \in DOMAIN reads |-> reads[i].rssi]
          t_min        == SeqMin(timestamps)
          t_normalized == [i \in DOMAIN reads |-> timestamps[i] - t_min]
      IN  FittedPeak(epc, reads, Polyfit2(t_normalized, rssi_values),
                     t_min, SeqMax(timestamps))

\* TagBuffer.__init__.  buffers and last_processed are functions over the tags of
\* the model (an absent key is <<>> / None); window_start_times is the dict in
\* insertion order, a sequence of <<epc, start>>; callback tells whether one is set.
TagBuffer(window, callback) ==
    [window_seconds     |-> window,
     callback           |-> callback,
     buffers            |-> [e \in Epcs |-> <<>>],
     window_start_times |-> <<>>,
     last_processed     |-> [e \in Epcs |-> None]]

\* epc in self.window_start_times / self.window_start_times[epc]
HasWindow(tb, epc) == \E i \in DOMAIN tb.window_start_times : tb.window_start_times[i][1] = epc
WindowStart(tb, epc) ==
    LET i == CHOOSE j \in DOMAIN tb.window_start_times : tb.window_start_times[j][1] = epc
    IN  tb.window_start_times[i][2]

\* _finalize_detection, after the result is chosen: the buffer and the window of
\* the tag are dropped, the tag is stamped, the callback runs on a result
Finalized(tb, epc, current_time, result) ==
    [tb  |-> [tb EXCEPT !.buffers[epc] = <<>>,
                        !.window_start_times = SelectSeq(@, LAMBDA w : w[1] # epc),
                        !.last_processed[epc] = Some(current_time)],
     ret |-> result,
     cb  |-> IF result # None /\ tb.callback THEN 1 ELSE 0]

\* _finalize_detection taking the read appended last for the one of greatest timestamp
_finalize_detection_last_appended(tb, epc, detection_mode, current_time) ==
    IF tb.buffers[epc] = <<>>
    THEN [tb |-> tb, ret |-> None, cb |-> 0]
    ELSE
      LET reads  == tb.buffers[epc]
          last_read == reads[Len(reads)]
      IN  Finalized(tb, epc, current_time,
            IF detection_mode = "last_seen"
            THEN Some(Detection(epc, RInt(last_read.timestamp), RInt(last_read.rssi)))
            ELSE IF detection_mode = "peak_rssi"
            THEN Some(_calculate_peak_rssi(epc, reads))
            ELSE None)

\* TagBuffer._finalize_detection.  ret is the tuple returned (or None), cb the
\* number of callback invocations made.
_finalize_detection(tb, epc, detection_mode, current_time) ==
    IF tb.buffers[epc] = <<>>
    THEN [tb |-> tb, ret |-> None, cb |-> 0]
    ELSE
      LET reads  == tb.buffers[epc]
          last_read == FirstMaxBy(reads, LAMBDA r : r.timestamp)
      IN  Finalized(tb, epc, current_time,
            IF detection_mode = "last_seen"
            THEN Some(Detection(epc, RInt(last_read.timestamp), RInt(last_read.rssi)))
            ELSE IF detection_mode = "peak_rssi"
            THEN Some(_calculate_peak_rssi(epc, reads))
            ELSE None)

\* add_read with the dedup test off by one (<= for <)
add_read_dedup_inclusive(tb, epc, rssi, timestamp, detection_mode, current_time) ==
    IF detection_mode = "first_seen"
    THEN
      IF tb.last_processed[epc] # None
         /\ current_time - Val(tb.last_processed[epc]) <= tb.window_seconds
      THEN [tb |-> tb, ret |-> None, cb |-> 0]
      ELSE
        LET det == Detection(epc, RInt(timestamp), RInt(rssi))
        IN  [tb |-> [tb EXCEPT !.last_processed[epc] = Some(current_time)],
             ret |-> Some(det),
             cb |-> IF tb.callback THEN 1 ELSE 0]
    ELSE [tb |-> tb, ret |-> None, cb |-> 0]

\* TagBuffer.add_read
add_read(tb, epc, rssi, timestamp, detection_mode, current_time) ==
    IF detection_mode = "first_seen"
    THEN
      IF tb.last_processed[epc] # None
         /\ current_time - Val(tb.last_processed[epc]) < tb.window_seconds
      THEN [tb |-> tb, ret |-> None, cb |-> 0]
      ELSE
        LET det == Detection(epc, RInt(timestamp), RInt(rssi))
        IN  [tb |-> [tb EXCEPT !.last_processed[epc] = Some(current_time)],
             ret |-> Some(det),
             cb |-> IF tb.callback THEN 1 ELSE 0]
    ELSE
      LET tag_read == [rssi |-> rssi, timestamp |-> timestamp]
      IN  IF ~HasWindow(tb, epc)
          THEN [tb |-> [tb EXCEPT !.window_start_times = Append(@, <<epc, current_time>>),
                                  !.buffers[epc] = <<tag_read>>],
                ret |-> None, cb |-> 0]
          ELSE
            LET tb1 == [tb EXCEPT !.buffers[epc] = Append(@, tag_read)]
            IN  IF current_time - WindowStart(tb, epc) >= tb.window_seconds
                THEN _finalize_detection(tb1, epc, detection_mode, current_time)
                ELSE [tb |-> tb1, ret |-> None, cb |-> 0]

\* check_expired_windows, "if result: results.append(result)"
Appended(acc, r) == [tb |-> r.tb, ret |-> acc.ret \o r.ret, cb |-> acc.cb + r.cb]

\* check_expired_windows, the loop over expired_tags; acc is the buffer with the
\* detections returned and the callbacks run so far
RECURSIVE FinalizeAll(_, _, _, _)
FinalizeAll(acc, expired_tags, detection_mode, current_time) ==
    IF expired_tags = <<>>
    THEN acc
    ELSE FinalizeAll(Appended(acc, _finalize_detection(acc.tb, Head(expired_tags),
                                                       detection_mode, current_time)),
                     Tail(expired_tags), detection_mode, current_time)

\* check_expired_windows with a strict expiry test (> for >=)
check_expired_windows_strict(tb, detection_mode, current_time) ==
    LET expired == SelectSeq(tb.window_start_times,
                             LAMBDA w : current_time - w[2] > tb.window_seconds)
        expired_tags == [i \in DOMAIN expired |-> expired[i][1]]
    IN  FinalizeAll([tb |-> tb, ret |-> <<>>, cb |-> 0], expired_tags,
                    detection_mode, current_time)

\* TagBuffer.check_expired_windows: ret is the list of detections returned
check_expired_windows(tb, detection_mode, current_time) ==
    LET expired == SelectSeq(tb.window_start_times,
                             LAMBDA w : current_time - w[2] >= tb.window_seconds)
        expired_tags == [i \in DOMAIN expired |-> expired[i][1]]
    IN  FinalizeAll([tb |-> tb, ret |-> <<>>, cb |-> 0], expired_tags,
                    detection_mode, current_time)

-----------------------------------------------------------------------------
(* tag_detection.py: TagDetectionManager *)

\* process_tag_read, after add_read: the buffer is kept under the timing point
Buffered(modes, bufs, timing_point_id, mode, r) ==
    [modes |-> [modes EXCEPT ![timing_point_id] = mode],
     bufs  |-> [bufs EXCEPT ![timing_point_id] = r.tb],
     ret   |-> r.ret,
     cb    |-> r.cb]

\* TagDetectionManager.process_tag_read: configures an unknown timing point as
\* first_seen / 3.0 without callback, then hands the read to its TagBuffer
MgrProcessTagRead(modes, bufs, timing_point_id, epc, rssi, timestamp, current_time) ==
    LET configured == modes[timing_point_id] # "unconfigured"
        mode == IF configured THEN modes[timing_point_id] ELSE "first_seen"
        tb   == IF configured THEN bufs[timing_point_id] ELSE TagBuffer(DefaultWindow, FALSE)
    IN  Buffered(modes, bufs, timing_point_id, mode,
                 add_read(tb, epc, rssi, timestamp, mode, current_time))

\* check_all_expired_windows, "results.extend([(timing_point_id, *result) ...])"
Collected(acc, tp, r) ==
    [bufs |-> [acc.bufs EXCEPT ![tp] = r.tb],
     ret  |-> acc.ret \o [i \in DOMAIN r.ret |-> [tp |-> tp, det |-> r.ret[i]]],
     cb   |-> acc.cb + r.cb]

\* check_all_expired_windows, the loop over self.buffers from timing point tp on:
\* the dict is filled by _configure_detection_modes in timing point order; acc
\* is the buffers with the (timing_point_id, detection) list and the callbacks so far
RECURSIVE CheckAllFrom(_, _, _, _)
CheckAllFrom(modes, acc, tp, current_time) ==
    IF tp \notin TimingPointIds
    THEN acc
    ELSE IF modes[tp] = "unconfigured"
    THEN CheckAllFrom(modes, acc, tp + 1, current_time)
    ELSE CheckAllFrom(modes,
                      Collected(acc, tp,
                                check_expired_windows(acc.bufs[tp], modes[tp], current_time)),
                      tp + 1, current_time)

\* TagDetectionManager.check_all_expired_windows
check_all_expired_windows(modes, bufs, current_time) ==
    CheckAllFrom(modes, [bufs |-> bufs, ret |-> <<>>, cb |-> 0], 1, current_time)

-----------------------------------------------------------------------------
(* race_control.py: RaceControl -- results engine *)

\* A TimeRecord row; timestamps are datetimes, whole ticks of local time
TimeRecord(participant_id, timing_point_id, timestamp, source) ==
    [participant_id |-> participant_id, timing_point_id |-> timing_point_id,
     timestamp |-> timestamp, source |-> source]

\* RaceResult(race_id, participant_id, bib_number, category, status=REGISTERED)
RaceResult(participant_id, category) ==
    [participant_id |-> participant_id, category |-> category, status |-> "registered",
     start_time |-> None, finish_time |-> None, total_time |-> None,
     overall_rank |-> None, category_rank |-> None, gender_rank |-> None,
     split_times |-> <<>>]

HasResult(res, p) == \E i \in DOMAIN res : res[i].participant_id = p
ResultIdx(res, p) == CHOOSE i \in DOMAIN res : res[i].participant_id = p

\* Python truthiness of an optional number: neither None nor 0
Truthy(o) == o # None /\ Val(o) # 0

\* the loop of _calculate_category over json.loads(race.age_groups); reading
\* group['min'] / group['max'] of a group that lacks them raises
RECURSIVE CategoryOf(_, _)
CategoryOf(groups, age) ==
    IF groups = <<>> THEN "Open"
    ELSE IF ~Head(groups).wellformed THEN "Open"                 \* except: pass
    ELSE IF Head(groups).min <= age /\ age <= Head(groups).max THEN Head(groups).name
    ELSE CategoryOf(Tail(groups), age)

\* RaceControl._calculate_category
_calculate_category(participant, rc) ==
    IF ~Truthy(participant.age) THEN "Open"
    ELSE IF rc.age_groups = None THEN "Open"
    ELSE IF ~Val(rc.age_groups).parses THEN "Open"               \* json.loads raises
    ELSE CategoryOf(Val(rc.age_groups).groups, Val(participant.age))

\* r.total_time if r.total_time else float('inf'), as a strict order
FasterTruthy(a, b) ==
    /\ Truthy(a.total_time)
    /\ (~Truthy(b.total_time) \/ Val(a.total_time) < Val(b.total_time))

\* One pass of the for-loops of _apply_aging_down over the rows rs (only the
\* finished ones take part): the first move found, as <<row index, category>>, or <<>>
AgingMove(rs, groups) ==
    LET fin == {k \in DOMAIN rs : rs[k].status = "finished"}
        members(name) == {k \in fin : rs[k].category = name}
        \* young_results.sort(...)[0]
        winner(name) == CHOOSE k \in members(name) :
                           \A l \in members(name) :
                               l = k \/ FasterTruthy(rs[k], rs[l])
                                     \/ (~FasterTruthy(rs[l], rs[k]) /\ k < l)
        moves(i) ==
            IF members(groups[i].name) = {} THEN {}
            ELSE IF ~Truthy(rs[winner(groups[i].name)].total_time) THEN {}
            ELSE {<<j, k>> \in ((i + 1)..Len(groups)) \X fin :
                     /\ rs[k].category = groups[j].name
                     /\ Truthy(rs[k].total_time)
                     /\ Val(rs[k].total_time) < Val(rs[winner(groups[i].name)].total_time)}
        young == {i \in DOMAIN groups : moves(i) # {}}
    IN  IF young = {} THEN <<>>
        ELSE
          LET i  == CHOOSE x \in young : \A y \in young : x <= y
              jk == CHOOSE m \in moves(i) :
                       \A o \in moves(i) : m[1] < o[1] \/ (m[1] = o[1] /\ m[2] <= o[2])
          IN  <<jk[2], groups[i].name>>

RECURSIVE AgingLoop(_, _, _)
AgingLoop(rs, groups, iteration) ==
    IF iteration >= max_iterations THEN rs
    ELSE
      LET mv == AgingMove(rs, groups)
      IN  IF mv = <<>> THEN rs
          ELSE AgingLoop([rs EXCEPT ![mv[1]].category = mv[2]], groups, iteration + 1)

\* the ranking pass without aging down
_apply_aging_down_off(rs, rc) == rs

\* RaceControl._apply_aging_down; any exception leaves the rows as they are
_apply_aging_down(rs, rc) ==
    LET ag == Val(rc.age_groups)
    IN  IF ~ag.parses THEN rs
        ELSE IF \E i \in DOMAIN ag.groups : ~ag.groups[i].wellformed THEN rs
        ELSE AgingLoop(rs, StableSort(ag.groups, LAMBDA g, h : g.min < h.min), 0)

\* progress_map[pid]: the (order, timestamp) of the participant's record at the
\* timing point of highest order (the earliest inserted one of several), or <<>>
Progress(trs, pid) ==
    LET mine == {i \in DOMAIN trs : trs[i].participant_id = pid}
        ord(i) == timing_points[trs[i].timing_point_id].order
    IN  IF mine = {} THEN <<>>
        ELSE LET i == CHOOSE x \in mine :
                         \A y \in mine : ord(y) < ord(x) \/ (ord(y) = ord(x) /\ x <= y)
             IN  <<ord(i), trs[i].timestamp>>

\* get_progress_sort_key comparing the order reached only
ProgressBefore_order_only(trs, a, b) ==
    LET pa == Progress(trs, a.participant_id)
        pb == Progress(trs, b.participant_id)
    IN  /\ pa # <<>>
        /\ (pb = <<>> \/ pa[1] > pb[1])

\* get_progress_sort_key as a strict order: (-order, timestamp), default (1, datetime.max)
ProgressBefore(trs, a, b) ==
    LET pa == Progress(trs, a.participant_id)
        pb == Progress(trs, b.participant_id)
    IN  /\ pa # <<>>
        /\ (pb = <<>> \/ pa[1] > pb[1] \/ (pa[1] = pb[1] /\ pa[2] < pb[2]))

\* _calculate_rankings, "update categories before ranking": a row keeps its
\* category when the computed one is "Open"
Recategorized(res) ==
    [i \in DOMAIN res |->
       IF res[i].status \notin {"finished", "started"} THEN res[i]
       ELSE IF _calculate_category(participants[res[i].participant_id], race) = "Open"
       THEN res[i]
       ELSE [res[i] EXCEPT !.category =
                _calculate_category(participants[res[i].participant_id], race)]]

\* _calculate_rankings, aging down when somebody finished and age groups are set
AgedDown(res1) ==
    IF (\E i \in DOMAIN res1 : res1[i].status = "finished") /\ race.age_groups # None
    THEN _apply_aging_down(res1, race)
    ELSE res1

\* ranked_results with the finished rows sorted as if a missing total_time
\* were zero
RankedResults_none_first(trs, res2) ==
    StableSort(SelectSeq([i \in DOMAIN res2 |-> i], LAMBDA i : res2[i].status = "finished"),
               LAMBDA i, j : /\ res2[j].total_time # None
                             /\ (res2[i].total_time = None
                                 \/ Val(res2[i].total_time) < Val(res2[j].total_time)))
    \o StableSort(SelectSeq([i \in DOMAIN res2 |-> i], LAMBDA i : res2[i].status = "started"),
                  LAMBDA i, j : ProgressBefore(trs, res2[i], res2[j]))

\* _calculate_rankings, ranked_results as row indices: the finished rows by
\* total_time (None last), then the started rows by progress
RankedResults(trs, res2) ==
    StableSort(SelectSeq([i \in DOMAIN res2 |-> i], LAMBDA i : res2[i].status = "finished"),
               LAMBDA i, j : /\ res2[i].total_time # None
                             /\ (res2[j].total_time = None
                                 \/ Val(res2[i].total_time) < Val(res2[j].total_time)))
    \o StableSort(SelectSeq([i \in DOMAIN res2 |-> i], LAMBDA i : res2[i].status = "started"),
                  LAMBDA i, j : ProgressBefore(trs, res2[i], res2[j]))

\* "participant.gender" as a condition: None and the empty string are false
KnownGender(g) == g # None /\ Val(g) # ""

\* the ranks assigned without the clearing of the ranks of the other rows
AssignRanks_keep(res2, ranked_results) ==
    LET rankOf(i) == CHOOSE k \in DOMAIN ranked_results : ranked_results[k] = i
        gender(i) == participants[res2[i].participant_id].gender
    IN  [i \in DOMAIN res2 |->
           IF res2[i].status \in {"finished", "started"}
           THEN [res2[i] EXCEPT
                   !.overall_rank = Some(rankOf(i)),
                   !.category_rank = Some(Cardinality({k \in 1..rankOf(i) :
                        res2[ranked_results[k]].category = res2[i].category})),
                   !.gender_rank = IF ~KnownGender(gender(i)) THEN @
                                   ELSE Some(Cardinality({k \in 1..rankOf(i) :
                                        gender(ranked_results[k]) = gender(i)}))]
           ELSE res2[i]]

\* _calculate_rankings, the three ranks of the ranked rows and the clearing of
\* the ranks of the others
AssignRanks(res2, ranked_results) ==
    LET rankOf(i) == CHOOSE k \in DOMAIN ranked_results : ranked_results[k] = i
        gender(i) == participants[res2[i].participant_id].gender
    IN  [i \in DOMAIN res2 |->
           IF res2[i].status \in {"finished", "started"}
           THEN [res2[i] EXCEPT
                   !.overall_rank = Some(rankOf(i)),
                   !.category_rank = Some(Cardinality({k \in 1..rankOf(i) :
                        res2[ranked_results[k]].category = res2[i].category})),
                   !.gender_rank = IF ~KnownGender(gender(i)) THEN @
                                   ELSE Some(Cardinality({k \in 1..rankOf(i) :
                                        gender(ranked_results[k]) = gender(i)}))]
           ELSE [res2[i] EXCEPT !.overall_rank = None, !.category_rank = None,
                                !.gender_rank = None]]

RankAll(trs, res2) == AssignRanks(res2, RankedResults(trs, res2))

\* RaceControl._calculate_rankings
_calculate_rankings(trs, res) == RankAll(trs, AgedDown(Recategorized(res)))

\* the loop of _update_result over the participant's records in timestamp order
RECURSIVE ScanTimes(_, _)
ScanTimes(times, acc) ==
    IF times = <<>> THEN acc
    ELSE
      LET time_record == Head(times)
          tp == timing_points[time_record.timing_point_id]
          seen == \E k \in DOMAIN acc.split_times : acc.split_times[k][1] = tp.name
          acc1 == [acc EXCEPT !.split_times = Append(@, <<tp.name, time_record.timestamp>>)]
          acc2 == IF tp.is_start
                  THEN [acc1 EXCEPT !.start_time = Some(time_record.timestamp),
                                    !.status = "started"]
                  ELSE IF tp.is_finish
                  THEN [acc1 EXCEPT !.finish_time = Some(time_record.timestamp),
                                    !.status = "finished"]
                  ELSE acc1
      IN  ScanTimes(Tail(times), IF seen THEN acc ELSE acc2)

\* _update_result writing the status found in the records over a dnf or dns
_update_result_overwrite(trs, res, participant_id, calculate_rankings) ==
    LET res0 == IF HasResult(res, participant_id) THEN res
                ELSE Append(res, RaceResult(participant_id,
                                   _calculate_category(participants[participant_id], race)))
        i == ResultIdx(res0, participant_id)
        times == StableSort(SelectSeq(trs, LAMBDA t : t.participant_id = participant_id),
                            LAMBDA a, b : a.timestamp < b.timestamp)
        scan == ScanTimes(times,
                   [start_time |-> race.start_time, finish_time |-> None, split_times |-> <<>>,
                    status |-> IF race.start_time # None THEN "started" ELSE "registered"])
        status == scan.status
        res1 == [res0 EXCEPT ![i] =
                   [@ EXCEPT !.status = status,
                             !.start_time = scan.start_time,
                             !.finish_time = scan.finish_time,
                             !.split_times = scan.split_times,
                             !.total_time = IF scan.start_time # None /\ scan.finish_time # None
                                            THEN Some(Val(scan.finish_time) - Val(scan.start_time))
                                            ELSE None]]
    IN  IF calculate_rankings THEN _calculate_rankings(trs, res1) ELSE res1

\* RaceControl._update_result
_update_result(trs, res, participant_id, calculate_rankings) ==
    LET res0 == IF HasResult(res, participant_id) THEN res
                ELSE Append(res, RaceResult(participant_id,
                                   _calculate_category(participants[participant_id], race)))
        i == ResultIdx(res0, participant_id)
        times == StableSort(SelectSeq(trs, LAMBDA t : t.participant_id = participant_id),
                            LAMBDA a, b : a.timestamp < b.timestamp)
        scan == ScanTimes(times,
                   [start_time |-> race.start_time, finish_time |-> None, split_times |-> <<>>,
                    status |-> IF race.start_time # None THEN "started" ELSE "registered"])
        status == IF res0[i].status \in {"dnf", "dns"} /\ scan.status # "finished"
                  THEN res0[i].status
                  ELSE scan.status
        res1 == [res0 EXCEPT ![i] =
                   [@ EXCEPT !.status = status,
                             !.start_time = scan.start_time,
                             !.finish_time = scan.finish_time,
                             !.split_times = scan.split_times,
                             !.total_time = IF scan.start_time # None /\ scan.finish_time # None
                                            THEN Some(Val(scan.finish_time) - Val(scan.start_time))
                                            ELSE None]]
    IN  IF calculate_rankings THEN _calculate_rankings(trs, res1) ELSE res1

\* RaceControl.calculate_results: every registered participant, then the ranking pass
RECURSIVE UpdateAll(_, _, _)
UpdateAll(trs, res, p) ==
    IF p \notin Participants THEN res
    ELSE UpdateAll(trs,
                   IF participants[p].registered THEN _update_result(trs, res, p, FALSE) ELSE res,
                   p + 1)

calculate_results(trs, res) == _calculate_rankings(trs, UpdateAll(trs, res, 1))

\* RaceControl.mark_dnf / mark_dns
mark_status(trs, res, participant_id, status) ==
    IF HasResult(res, participant_id)
    THEN _calculate_rankings(trs,
            [res EXCEPT ![ResultIdx(res, participant_id)].status = status])
    ELSE res

-----------------------------------------------------------------------------
(* race_control.py: RaceControl -- routing and sequencing *)

\* datetime.fromtimestamp(t): the float is rounded half-even to the datetime
\* resolution and shifted to local time
fromtimestamp(t) ==
    LET q == t[1] \div t[2]
        r == t[1] % t[2]
    IN  UtcOffset + (IF 2 * r < t[2] THEN q
                     ELSE IF 2 * r > t[2] THEN q + 1
                     ELSE IF q % 2 = 0 THEN q ELSE q + 1)

\* datetime.now()
datetime_now == fromtimestamp(RInt(now))

\* lookup by tag that falls back to the first participant when no tag matches
get_participant_by_rfid_or_first(epc) == IF epc \in Participants THEN Some(epc) ELSE Some(1)

\* ParticipantManager.get_participant_by_rfid: the participant whose rfid_tag is epc
get_participant_by_rfid(epc) == IF epc \in Participants THEN Some(epc) ELSE None

\* ParticipantManager.get_participant_by_bib: the bib of a registered participant
\* is its id
get_participant_by_bib(bib_number) ==
    IF bib_number \in Participants /\ participants[bib_number].registered
    THEN Some(bib_number) ELSE None

\* query(...).first() over timing points: the one of lowest id that satisfies P
FirstTimingPoint(P(_)) ==
    LET found == {tp \in TimingPointIds : P(timing_points[tp])}
    IN  IF found = {} THEN None ELSE Some(CHOOSE tp \in found : \A o \in found : tp <= o)

\* next timing point taken by id instead of by sequence order
_get_next_timing_point_by_id(trs, participant_id) ==
    LET recorded_point_ids == {trs[i].timing_point_id : i \in
                                 {j \in DOMAIN trs : trs[j].participant_id = participant_id}}
        open == TimingPointIds \ recorded_point_ids
    IN  IF open = {} THEN None
        ELSE Some(CHOOSE tp \in open : \A o \in open : tp <= o)

\* RaceControl._get_next_timing_point: the first unrecorded point in order of
\* TimingPoint.order (orders are unique within a race)
_get_next_timing_point(trs, participant_id) ==
    LET recorded_point_ids == {trs[i].timing_point_id : i \in
                                 {j \in DOMAIN trs : trs[j].participant_id = participant_id}}
        open == TimingPointIds \ recorded_point_ids
    IN  IF open = {} THEN None
        ELSE Some(CHOOSE tp \in open :
                     \A o \in open : timing_points[tp].order <= timing_points[o].order)

\* RaceControl.record_time: the row is added and the result recomputed
record_time(trs, res, participant_id, timing_point_id, timestamp, source) ==
    LET trs1 == Append(trs, TimeRecord(participant_id, timing_point_id, timestamp, source))
    IN  [trs |-> trs1, res |-> _update_result(trs1, res, participant_id, TRUE)]

\* _process_finalized_tag up to the choice of the timing point: None when the
\* detection is dropped
ResolveTimingPoint(trs, epc) ==
    LET participant == get_participant_by_rfid(epc)
        existing_records == Cardinality({i \in DOMAIN trs :
                                            trs[i].participant_id = Val(participant)})
        start_timing_point == FirstTimingPoint(LAMBDA tp : tp.is_start)
    IN  IF participant = None THEN None
        ELSE IF /\ race.start_mode = "chip_start"
                /\ existing_records = 0
                /\ start_timing_point # None
        THEN start_timing_point
        ELSE _get_next_timing_point(trs, Val(participant))

\* the chip-start rule writing at the finish instead of the start
_process_finalized_tag_chip_at_finish(trs, res, epc, timestamp, station_id) ==
    LET participant == get_participant_by_rfid(epc)
        existing_records == Cardinality({i \in DOMAIN trs :
                                            trs[i].participant_id = Val(participant)})
        start_timing_point == FirstTimingPoint(LAMBDA tp : tp.is_finish)
        timing_point == _get_next_timing_point(trs, Val(participant))
    IN  IF participant = None THEN [trs |-> trs, res |-> res]
        ELSE IF /\ race.start_mode = "chip_start"
                /\ existing_records = 0
                /\ start_timing_point # None
        THEN record_time(trs, res, Val(participant), Val(start_timing_point),
                         fromtimestamp(timestamp), "llrp")
        ELSE IF timing_point = None THEN [trs |-> trs, res |-> res]
        ELSE record_time(trs, res, Val(participant), Val(timing_point),
                         fromtimestamp(timestamp), "llrp")

\* RaceControl._process_finalized_tag
_process_finalized_tag(trs, res, epc, timestamp, station_id) ==
    LET participant == get_participant_by_rfid(epc)
        existing_records == Cardinality({i \in DOMAIN trs :
                                            trs[i].participant_id = Val(participant)})
        start_timing_point == FirstTimingPoint(LAMBDA tp : tp.is_start)
        timing_point == _get_next_timing_point(trs, Val(participant))
    IN  IF participant = None THEN [trs |-> trs, res |-> res]
        ELSE IF /\ race.start_mode = "chip_start"
                /\ existing_records = 0
                /\ start_timing_point # None
        THEN record_time(trs, res, Val(participant), Val(start_timing_point),
                         fromtimestamp(timestamp), "llrp")
        ELSE IF timing_point = None THEN [trs |-> trs, res |-> res]
        ELSE record_time(trs, res, Val(participant), Val(timing_point),
                         fromtimestamp(timestamp), "llrp")

\* process_tag_read, after the detection manager took the read: a detection it
\* returned is routed at once.  d is what the manager returned.
Handled(timing_point_id, station_id, d) ==
    LET routed == IF d.ret = None THEN [trs |-> time_records, res |-> results]
                  ELSE _process_finalized_tag(time_records, results, Val(d.ret).epc,
                                              Val(d.ret).timestamp, station_id)
    IN  [modes |-> d.modes, bufs |-> d.bufs, trs |-> routed.trs, res |-> routed.res,
         tp |-> timing_point_id, ret |-> d.ret, cb |-> d.cb]

\* process_tag_read without the check of self.active
ProcessTagRead_unguarded(epc, timestamp, station_id, rssi) ==
    LET timing_point == IF station_id = None THEN None
                        ELSE FirstTimingPoint(LAMBDA tp : tp.llrp_station_id = station_id)
        dropped == [modes |-> detection_modes, bufs |-> tag_buffers, trs |-> time_records,
                    res |-> results, tp |-> 0, ret |-> None, cb |-> 0]
    IN  IF timing_point = None THEN dropped
        ELSE Handled(Val(timing_point), station_id,
                     MgrProcessTagRead(detection_modes, tag_buffers, Val(timing_point), epc,
                                       IF rssi # None THEN Val(rssi) ELSE DefaultRssi,
                                       timestamp, now))

\* RaceControl.process_tag_read(epc, timestamp, station_id, rssi).  tp is the
\* timing point whose buffer took the read (0 when none did), ret the detection
\* the buffer returned
ProcessTagRead(epc, timestamp, station_id, rssi) ==
    LET timing_point == IF station_id = None THEN None
                        ELSE FirstTimingPoint(LAMBDA tp : tp.llrp_station_id = station_id)
        dropped == [modes |-> detection_modes, bufs |-> tag_buffers, trs |-> time_records,
                    res |-> results, tp |-> 0, ret |-> None, cb |-> 0]
    IN  IF ~active THEN dropped
        ELSE IF timing_point = None THEN dropped
        ELSE Handled(Val(timing_point), station_id,
                     MgrProcessTagRead(detection_modes, tag_buffers, Val(timing_point), epc,
                                       IF rssi # None THEN Val(rssi) ELSE DefaultRssi,
                                       timestamp, now))

\* str.lower() on the timing point names in use
Lower(name) ==
    CASE name = "Start"  -> "start"
      [] name = "Split"  -> "split"
      [] name = "Finish" -> "finish"
      [] OTHER -> name

\* RaceControl.record_manual_time: ok tells whether a TimeRecord was returned
RecordManualTime(bib_number, timing_point_name, timestamp) ==
    LET ts == IF timestamp = None THEN datetime_now ELSE Val(timestamp)
        participant == get_participant_by_bib(bib_number)
        exact   == FirstTimingPoint(LAMBDA tp : tp.name = timing_point_name)
        target_tp == IF exact # None THEN exact
                     ELSE FirstTimingPoint(LAMBDA tp : Lower(tp.name) = Lower(timing_point_name))
    IN  IF participant = None \/ target_tp = None
        THEN [trs |-> time_records, res |-> results, ok |-> FALSE]
        ELSE LET r == record_time(time_records, results, Val(participant), Val(target_tp),
                                  ts, "manual")
             IN  [trs |-> r.trs, res |-> r.res, ok |-> TRUE]

\* RaceControl.record_manual_time_auto: ok is the 'success' of the dict returned
RecordManualTimeAuto(bib_number, timestamp) ==
    LET ts == IF timestamp = None THEN datetime_now ELSE Val(timestamp)
        participant == get_participant_by_bib(bib_number)
        timing_point == _get_next_timing_point(time_records, Val(participant))
    IN  IF participant = None THEN [trs |-> time_records, res |-> results, ok |-> FALSE]
        ELSE IF timing_point = None THEN [trs |-> time_records, res |-> results, ok |-> FALSE]
        ELSE LET r == record_time(time_records, results, Val(participant), Val(timing_point),
                                  ts, "manual")
             IN  [trs |-> r.trs, res |-> r.res, ok |-> TRUE]

-----------------------------------------------------------------------------
(* The detection buffer on its own: one TagDetectionManager, reads and sweeps *)

Window     == 1              \* detection_window_seconds of the configured timing points
RssiValues == {10, 20}       \* signal strengths of the reads

\* last: op the call, tp / epc the timing point and tag (or participant) it was
\* about, st the station that sent the read, ret the detections the buffer
\* returned, cb the callbacks it ran
NoCall == [op |-> "init", tp |-> 0, epc |-> 0, st |-> <<>>, ret |-> <<>>, cb |-> 0]
\* a call whose identity no property needs
Other == [NoCall EXCEPT !.op = "other"]

Count(f) == SumSeq([i \in 1..Cardinality(TimingPointIds) |->
                SumSeq([j \in 1..Cardinality(Epcs) |-> f[i][j - 1]])])

InitLogs ==
    /\ produced  = [tp \in TimingPointIds |-> [e \in Epcs |-> 0]]
    /\ submitted = [tp \in TimingPointIds |-> [e \in Epcs |-> 0]]
    /\ last = NoCall

StationIds == {1, 2}         \* the LLRP stations of the course
Threads    == StationIds     \* one delivering thread per station service

\* no detection is being delivered, no station has been started
InitIdle ==
    /\ threads  = [t \in Threads |-> [pc |-> "idle", participant |-> 0, tp |-> 0, ts |-> 0]]
    /\ readers  = [s \in StationIds |->
                     [running |-> FALSE, sock |-> FALSE, pc |-> "new", delivered |-> 0]]
    /\ services = [s \in StationIds |->
                     [running |-> FALSE, connected |-> FALSE, pc |-> "new", delivered |-> 0,
                      thread |-> 0]]

\* The store is not used by the detection buffer
InitNoRace ==
    /\ active = FALSE
    /\ race = [start_time |-> None, start_mode |-> "mass_start", age_groups |-> None]
    /\ participants = [p \in Participants |-> [age |-> None, gender |-> None, registered |-> TRUE]]
    /\ timing_points = [tp \in TimingPointIds |->
          [name |-> "Start", order |-> tp, is_start |-> FALSE, is_finish |-> FALSE,
           llrp_station_id |-> None, detection_mode |-> None, detection_window_seconds |-> None]]
    /\ time_records = <<>>
    /\ results = <<>>

\* configure_timing_point for timing point 1 in any mode, or timing point 1 left
\* to the default configuration of process_tag_read
InitBuffer ==
    /\ now = 0
    /\ \E m \in Modes \cup {"unconfigured"} :
         detection_modes = [tp \in TimingPointIds |-> IF tp = 1 THEN m ELSE "unconfigured"]
    /\ tag_buffers = [tp \in TimingPointIds |-> TagBuffer(Window, TRUE)]
    /\ InitLogs
    /\ InitIdle
    /\ InitNoRace

\* time passes
Tick ==
    /\ now < MaxTime
    /\ now' = now + 1
    /\ last' = Other
    /\ UNCHANGED <<ioVars, active, mgrVars, dbVars, logVars>>

\* TagDetectionManager.process_tag_read(timing_point_id, epc, rssi, timestamp)
BufferRead(tp, epc, rssi, timestamp) ==
    /\ Count(submitted) < MaxReads
    /\ \E r \in {MgrProcessTagRead(detection_modes, tag_buffers, tp, epc, rssi, timestamp, now)} :
           /\ detection_modes' = r.modes
           /\ tag_buffers' = r.bufs
           /\ submitted' = [submitted EXCEPT ![tp][epc] = @ + 1]
           /\ produced' = [produced EXCEPT ![tp][epc] = @ + Len(r.ret)]
           /\ last' = [NoCall EXCEPT !.op = "add_read", !.tp = tp, !.epc = epc,
                                      !.ret = r.ret, !.cb = r.cb]
    /\ UNCHANGED <<ioVars, now, active, dbVars>>

\* TagDetectionManager.check_all_expired_windows()
BufferSweep ==
    /\ \E r \in {check_all_expired_windows(detection_modes, tag_buffers, now)} :
           /\ tag_buffers' = r.bufs
           /\ produced' = [tp \in TimingPointIds |-> [e \in Epcs |->
                  produced[tp][e]
                  + Cardinality({i \in DOMAIN r.ret : r.ret[i].tp = tp /\ r.ret[i].det.epc = e})]]
           /\ last' = [NoCall EXCEPT !.op = "check_all_expired_windows",
                                      !.ret = [i \in DOMAIN r.ret |-> r.ret[i].det],
                                      !.cb = r.cb]
    /\ UNCHANGED <<ioVars, now, active, detection_modes, dbVars, submitted>>

NextBuffer ==
    \/ Tick
    \/ \E epc \in Participants, rssi \in RssiValues, timestamp \in {now - 1, now} \cap Times :
          BufferRead(1, epc, rssi, timestamp)
    \/ BufferSweep

SpecBuffer == InitBuffer /\ [][NextBuffer]_vars

-----------------------------------------------------------------------------
(* One RaceControl with its store: detections, manual entries, marks, recompute *)

\* The course: Start (order 1, station 1), Split (order 2, no station) and
\* Finish (order 3, station 2); ids are not in course order
Course ==
    [tp \in TimingPointIds |->
       CASE tp = 1 -> [name |-> "Start", order |-> 1, is_start |-> TRUE, is_finish |-> FALSE,
                       llrp_station_id |-> Some(1), detection_mode |-> Some("first_seen"),
                       detection_window_seconds |-> Some(Window)]
         [] tp = 2 -> [name |-> "Finish", order |-> 3, is_start |-> FALSE, is_finish |-> TRUE,
                       llrp_station_id |-> Some(2), detection_mode |-> Some("last_seen"),
                       detection_window_seconds |-> Some(Window)]
         [] OTHER  -> [name |-> "Split", order |-> 2, is_start |-> FALSE, is_finish |-> FALSE,
                       llrp_station_id |-> None, detection_mode |-> None,
                       detection_window_seconds |-> None]]

Stations == {None, Some(1), Some(2), Some(3)}    \* station 3 serves no timing point

Junior == [name |-> "Junior", min |-> 0, max |-> 19, wellformed |-> TRUE]
Senior == [name |-> "Senior", min |-> 20, max |-> 99, wellformed |-> TRUE]

\* RaceControl._configure_detection_modes
ConfiguredModes(tps) ==
    [tp \in TimingPointIds |->
        IF tps[tp].detection_mode # None THEN Val(tps[tp].detection_mode) ELSE "first_seen"]
ConfiguredBuffers(tps) ==
    [tp \in TimingPointIds |->
        TagBuffer(IF Truthy(tps[tp].detection_window_seconds)
                  THEN Val(tps[tp].detection_window_seconds) ELSE DefaultWindow, TRUE)]

\* The participant registered for the race; the other participants of the store
\* are in no race. Tag and bib 0 are nobody's.
Entrant == 1
Bibs == {0, Entrant}

\* RaceControl.__init__ on a race that is set up and has no times yet
Init ==
    /\ now = 0
    /\ active = FALSE
    /\ timing_points = Course
    /\ detection_modes = ConfiguredModes(Course)
    /\ tag_buffers = ConfiguredBuffers(Course)
    /\ \E mode \in {"mass_start", "chip_start"}, gun \in {None, Some(UtcOffset)} :
          race = [start_time |-> gun, start_mode |-> mode,
                  age_groups |-> Some([parses |-> TRUE, groups |-> <<Junior, Senior>>])]
    /\ participants = [p \in Participants |->
          [age |-> Some(IF p = 1 THEN 35 ELSE 18), gender |-> IF p = 1 THEN Some("M") ELSE None,
           registered |-> p = Entrant]]
    /\ time_records = <<>>
    /\ results = <<>>
    /\ InitLogs
    /\ InitIdle

\* RaceControl.start_timing
start_timing ==
    /\ active' = TRUE
    /\ last' = Other
    /\ UNCHANGED <<ioVars, now, mgrVars, dbVars, logVars>>

\* RaceControl.stop_timing
stop_timing ==
    /\ active' = FALSE
    /\ last' = Other
    /\ UNCHANGED <<ioVars, now, mgrVars, dbVars, logVars>>

\* RaceControl.process_tag_read as llrp_tag_callback calls it: the timestamp is
\* the reader service's time.time() and no rssi is passed
process_tag_read(epc, timestamp, station_id, rssi) ==
    /\ Count(submitted) < MaxReads
    /\ \E r \in {ProcessTagRead(epc, timestamp, station_id, rssi)} :
           /\ Len(r.trs) <= MaxRecords
           /\ detection_modes' = r.modes
           /\ tag_buffers' = r.bufs
           /\ time_records' = r.trs
           /\ results' = r.res
           /\ submitted' = IF r.tp = 0 THEN submitted
                           ELSE [submitted EXCEPT ![r.tp][epc] = @ + 1]
           /\ produced' = IF r.tp = 0 THEN produced
                          ELSE [produced EXCEPT ![r.tp][epc] = @ + Len(r.ret)]
           /\ last' = [NoCall EXCEPT !.op = "process_tag_read", !.tp = r.tp, !.epc = epc,
                                      !.st = station_id, !.ret = r.ret, !.cb = r.cb]
    /\ UNCHANGED <<ioVars, now, active, cfgVars>>

\* RaceControl.record_manual_time(bib_number, timing_point_name, timestamp)
record_manual_time(bib_number, timing_point_name, timestamp) ==
    /\ \E r \in {RecordManualTime(bib_number, timing_point_name, timestamp)} :
           /\ Len(r.trs) <= MaxRecords
           /\ time_records' = r.trs
           /\ results' = r.res
           /\ last' = Other
    /\ UNCHANGED <<ioVars, now, active, mgrVars, cfgVars, logVars>>

\* RaceControl.mark_dnf(participant_id)
mark_dnf(participant_id) ==
    /\ results' = mark_status(time_records, results, participant_id, "dnf")
    /\ last' = Other
    /\ UNCHANGED <<ioVars, now, active, mgrVars, cfgVars, time_records, logVars>>

\* RaceControl.mark_dns(participant_id)
mark_dns(participant_id) ==
    /\ results' = mark_status(time_records, results, participant_id, "dns")
    /\ last' = Other
    /\ UNCHANGED <<ioVars, now, active, mgrVars, cfgVars, time_records, logVars>>

\* RaceControl.calculate_results()
recalculate ==
    /\ results' = calculate_results(time_records, results)
    /\ last' = [NoCall EXCEPT !.op = "calculate_results"]
    /\ UNCHANGED <<ioVars, now, active, mgrVars, cfgVars, time_records, logVars>>

\* names of the manual entries: the finish in another case than the timing
\* point's, and a name of no timing point. Manual entries carry no timestamp,
\* so they are stamped with the time of entry.
ManualNames == {"finish", "Lap"}

Next ==
    \/ Tick
    \/ start_timing
    \/ stop_timing
    \/ \E station_id \in Stations : process_tag_read(Entrant, now, station_id, None)
    \/ \E bib \in Bibs, name \in ManualNames : record_manual_time(bib, name, None)
    \/ mark_dnf(Entrant)
    \/ mark_dns(Entrant)
    \/ recalculate

Spec == Init /\ [][Next]_vars

-----------------------------------------------------------------------------
(* Routing on its own: timing is on, reads of the entrant's tag and of a tag
   nobody carries come from every station, the finish can be entered by hand *)

InitRouting ==
    /\ now = 0
    /\ active = TRUE
    /\ timing_points = Course
    /\ detection_modes = ConfiguredModes(Course)
    /\ tag_buffers = ConfiguredBuffers(Course)
    /\ \E mode \in {"mass_start", "chip_start"} :
          race = [start_time |-> Some(UtcOffset), start_mode |-> mode,
                  age_groups |-> Some([parses |-> TRUE, groups |-> <<Junior, Senior>>])]
    /\ participants = [p \in Participants |->
          [age |-> Some(IF p = 1 THEN 35 ELSE 18), gender |-> IF p = 1 THEN Some("M") ELSE None,
           registered |-> p = Entrant]]
    /\ time_records = <<>>
    /\ results = <<>>
    /\ InitLogs
    /\ InitIdle

NextRouting ==
    \/ Tick
    \/ \E epc \in {0, Entrant}, station_id \in Stations :
          process_tag_read(epc, now, station_id, None)
    \/ record_manual_time(Entrant, "finish", None)

SpecRouting == InitRouting /\ [][NextRouting]_vars

\* The same with time that keeps passing.  The program has no thread of its own
\* that acts on the detection buffers: nothing calls check_all_expired_windows,
\* and reads come only when a station sends them.
SpecLive == InitRouting /\ [][NextRouting]_vars /\ WF_vars(Tick)

-----------------------------------------------------------------------------
(* Detections delivered by the station threads: each station service calls
   llrp_tag_callback, and through it _process_finalized_tag, on its own thread.
   A thread's queries and commits are steps of their own; nothing in the
   program keeps another thread out between them. *)

\* _process_finalized_tag: the participant and the timing point are looked up
thread_resolve(t, epc) ==
    /\ threads[t].pc = "idle"
    /\ Len(time_records) + Cardinality({u \in Threads : threads[u].pc = "resolved"}) < MaxRecords
    /\ ResolveTimingPoint(time_records, epc) # None
    /\ threads' = [threads EXCEPT ![t] =
          [pc |-> "resolved", participant |-> Val(get_participant_by_rfid(epc)),
           tp |-> Val(ResolveTimingPoint(time_records, epc)),
           ts |-> fromtimestamp(RInt(now))]]
    /\ last' = Other
    /\ UNCHANGED <<now, active, mgrVars, dbVars, logVars, readers, services>>

\* record_time: session.add(time_record); session.commit()
thread_write(t) ==
    /\ threads[t].pc = "resolved"
    /\ time_records' = Append(time_records,
          TimeRecord(threads[t].participant, threads[t].tp, threads[t].ts, "llrp"))
    /\ threads' = [threads EXCEPT ![t].pc = "written"]
    /\ last' = Other
    /\ UNCHANGED <<now, active, mgrVars, cfgVars, results, logVars, readers, services>>

\* record_time: self._update_result(participant_id)
thread_recompute(t) ==
    /\ threads[t].pc = "written"
    /\ results' = _update_result(time_records, results, threads[t].participant, TRUE)
    /\ threads' = [threads EXCEPT ![t] = [pc |-> "idle", participant |-> 0, tp |-> 0, ts |-> 0]]
    /\ last' = Other
    /\ UNCHANGED <<now, active, mgrVars, cfgVars, time_records, logVars, readers, services>>

NextConcurrent ==
    \/ Tick
    \/ \E t \in Threads : thread_resolve(t, Entrant)
    \/ \E t \in Threads : thread_write(t)
    \/ \E t \in Threads : thread_recompute(t)

SpecConcurrent == InitRouting /\ [][NextConcurrent]_vars

-----------------------------------------------------------------------------
(* The ranking pass on its own: a mass-start race whose gun has gone, every
   participant registered, finish times entered by hand, no result rows yet *)

MaxFinish == 3               \* finish times run from the gun to MaxFinish ticks after it

\* the Senior group ending at 39, which leaves the older participants in no group
SeniorTo39 == [name |-> "Senior", min |-> 20, max |-> 39, wellformed |-> TRUE]

AgeGroupings == {[parses |-> TRUE, groups |-> <<Senior>>],
                 [parses |-> TRUE, groups |-> <<Junior, Senior>>],
                 [parses |-> TRUE, groups |-> <<Junior, SeniorTo39>>]}
Ages == {18, 30, 45}

\* the finish records, entered in the order of the participants
RECURSIVE FinishRecords(_, _)
FinishRecords(fin, p) ==
    IF p \notin Participants THEN <<>>
    ELSE (IF fin[p] = None THEN <<>>
          ELSE <<TimeRecord(p, 2, UtcOffset + Val(fin[p]), "manual")>>)
         \o FinishRecords(fin, p + 1)

InitRank ==
    /\ now = 0
    /\ active = FALSE
    /\ timing_points = Course
    /\ detection_modes = ConfiguredModes(Course)
    /\ tag_buffers = ConfiguredBuffers(Course)
    /\ race = [start_time |-> Some(UtcOffset), start_mode |-> "mass_start",
               age_groups |-> Some([parses |-> TRUE, groups |-> <<Junior, Senior>>])]
    /\ \E age \in [Participants -> Ages] :
          participants = [p \in Participants |->
              [age |-> Some(age[p]), gender |-> Some("M"), registered |-> TRUE]]
    /\ \E fin \in [Participants -> {Some(t) : t \in 0..MaxFinish}] :
          time_records = FinishRecords(fin, 1)
    /\ results = <<>>
    /\ InitLogs
    /\ InitIdle

\* RaceManager.update_race_age_groups
update_race_age_groups(age_groups) ==
    /\ race' = [race EXCEPT !.age_groups = Some(age_groups)]
    /\ last' = Other
    /\ UNCHANGED <<ioVars, now, active, mgrVars, participants, timing_points, time_records, results,
                   logVars>>

NextRank ==
    \/ recalculate
    \/ \E age_groups \in AgeGroupings : update_race_age_groups(age_groups)

SpecRank == InitRank /\ [][NextRank]_vars

\* The ranking pass under age-group definitions that are malformed as well: a
\* text that does not parse, and a list whose second group lacks its bounds
Unbounded == [name |-> "Senior", min |-> 0, max |-> 0, wellformed |-> FALSE]

MalformedGroupings == {[parses |-> FALSE, groups |-> <<>>],
                       [parses |-> TRUE, groups |-> <<Junior, Unbounded>>]}

\* json.loads raises, or a group lacks a key
IsMalformed(age_groups) ==
    age_groups # None
    /\ (~Val(age_groups).parses
        \/ \E i \in DOMAIN Val(age_groups).groups : ~Val(age_groups).groups[i].wellformed)

NextAgeGroups ==
    \/ recalculate
    \/ \E age_groups \in AgeGroupings \cup MalformedGroupings :
          update_race_age_groups(age_groups)

SpecAgeGroups == InitRank /\ [][NextAgeGroups]_vars

-----------------------------------------------------------------------------
(* Aging down on its own: _apply_aging_down applied to the finished rows of a
   field of MaxField finishers, the first a Junior, the others Seniors *)

MaxField == 12               \* finishers of the race

\* Row 1 is the Junior, finished in MaxField.  The Seniors of the set fast
\* finished before the Junior, each faster than the Seniors listed before it;
\* the other Seniors finished after the Junior.
Field(fast) ==
    [k \in 1..MaxField |->
       [RaceResult(k, IF k = 1 THEN "Junior" ELSE "Senior") EXCEPT
          !.status = "finished",
          !.start_time = Some(0),
          !.finish_time = Some(IF k = 1 THEN MaxField
                               ELSE IF k \in fast THEN MaxField + 1 - k ELSE MaxField + k),
          !.total_time = Some(IF k = 1 THEN MaxField
                              ELSE IF k \in fast THEN MaxField + 1 - k ELSE MaxField + k)]]

InitAging ==
    /\ now = 0
    /\ active = FALSE
    /\ timing_points = Course
    /\ detection_modes = ConfiguredModes(Course)
    /\ tag_buffers = ConfiguredBuffers(Course)
    /\ race = [start_time |-> Some(0), start_mode |-> "mass_start",
               age_groups |-> Some([parses |-> TRUE, groups |-> <<Junior, Senior>>])]
    /\ participants = [p \in Participants |->
          [age |-> Some(30), gender |-> None, registered |-> TRUE]]
    /\ time_records = <<>>
    /\ \E fast \in SUBSET (2..MaxField) : results = Field(fast)
    /\ InitLogs
    /\ InitIdle

\* _calculate_rankings, the call of _apply_aging_down on the finished rows
aging_down ==
    /\ last.op # "_apply_aging_down"
    /\ results' = _apply_aging_down(results, race)
    /\ last' = [NoCall EXCEPT !.op = "_apply_aging_down"]
    /\ UNCHANGED <<ioVars, now, active, mgrVars, cfgVars, time_records, logVars>>

NextAging == aging_down

SpecAging == InitAging /\ [][NextAging]_vars

-----------------------------------------------------------------------------
(* The peak_rssi buffer on its own: the reads of one tag, with any timestamps
   of the clock's range and three signal strengths, and the sweep *)

PeakRssi == {10, 20, 25}

InitPeak ==
    /\ now = 0
    /\ detection_modes = [tp \in TimingPointIds |-> IF tp = 1 THEN "peak_rssi" ELSE "unconfigured"]
    /\ tag_buffers = [tp \in TimingPointIds |-> TagBuffer(Window, TRUE)]
    /\ InitLogs
    /\ InitIdle
    /\ InitNoRace

NextPeak ==
    \/ Tick
    \/ \E rssi \in PeakRssi, timestamp \in Times : BufferRead(1, Entrant, rssi, timestamp)
    \/ BufferSweep

SpecPeak == InitPeak /\ [][NextPeak]_vars

-----------------------------------------------------------------------------
(* reader.py: LLRPReader, and reader_service.py: RFIDReaderService *)

\* The payload of an LLRP message as the sequence of its parameters.  A
\* parameter is [type, length, epc]: type 240 is TagReportData, 13 is EPC-96,
\* 0 stands for any other parameter; length is the length field, counted in
\* parameters (1: the parameter itself, 1 + n: it holds the n that follow,
\* 0: a length field of zero); epc is the tag an EPC-96 parameter carries.
\* Within a TagReportData two more types occur, parameters in the TV encoding
\* (one byte of type, no length field): 129 is AntennaID, a type the decoder
\* lists, 255 stands for a TV type it does not list.
ParamTypes   == {240, 13, 0}
ParamLengths == 0..2
MaxParams    == 2            \* parameters in one payload
Params   == [type : ParamTypes, length : ParamLengths, epc : {1}]
Payloads == UNION {[1..n -> Params] : n \in 0..MaxParams}

\* the length field of some parameter is zero or runs past the end of the payload
Malformed(payload) ==
    \E i \in DOMAIN payload :
        payload[i].length = 0 \/ i + payload[i].length - 1 > Len(payload)

\* LLRPReader._extract_epc_from_tag_report from parameter `offset` of data on:
\* hang tells that the while loop never ends (offset += 0)
RECURSIVE _extract_epc_from_tag_report(_, _)
_extract_epc_from_tag_report(data, offset) ==
    IF offset > Len(data) THEN [hang |-> FALSE, epc |-> None]
    ELSE IF data[offset].type = 129                 \* TV parameter of a listed type
         THEN _extract_epc_from_tag_report(data, offset + 1)
    ELSE IF data[offset].type = 255                 \* TV parameter of another type: break
         THEN [hang |-> FALSE, epc |-> None]
    ELSE IF data[offset].type = 13
         THEN [hang |-> FALSE,                       \* content.hex(), '' when it is empty
               epc |-> IF data[offset].length = 0 THEN None ELSE Some(data[offset].epc)]
    ELSE IF data[offset].length = 0 THEN [hang |-> TRUE, epc |-> None]
    ELSE _extract_epc_from_tag_report(data, offset + data[offset].length)

\* _parse_epc_from_payload, one parameter: the EPC of a TagReportData is added
Parsed(epcs, param, extracted) ==
    IF extracted.hang THEN [hang |-> TRUE, epcs |-> epcs]
    ELSE IF param.length = 0 THEN [hang |-> TRUE, epcs |-> epcs]
    ELSE [hang |-> FALSE, epcs |-> IF param.type = 240 THEN epcs \o extracted.epc ELSE epcs]

\* LLRPReader._parse_epc_from_payload from parameter `offset` on; acc is what
\* the loop has so far
RECURSIVE _parse_epc_from_payload(_, _, _)
_parse_epc_from_payload(payload, offset, acc) ==
    IF acc.hang THEN acc
    ELSE IF offset > Len(payload) THEN acc
    ELSE _parse_epc_from_payload(
            payload, offset + payload[offset].length,
            Parsed(acc.epcs, payload[offset],
                   IF payload[offset].type = 240
                   THEN _extract_epc_from_tag_report(
                           SubSeq(payload, offset + 1,
                                  IF offset + payload[offset].length - 1 > Len(payload)
                                  THEN Len(payload)
                                  ELSE offset + payload[offset].length - 1), 1)
                   ELSE [hang |-> FALSE, epc |-> None]))

\* What the socket gives one iteration of _read_loop: the peer closed before a
\* header, closed within the payload, recv raised, or a whole message arrived
Events ==
    {[kind |-> k, type |-> 0, payload |-> <<>>] : k \in {"closed", "short", "error"}}
    \cup {[kind |-> "message", type |-> 61, payload |-> pl] : pl \in Payloads}
    \cup {[kind |-> "message", type |-> 0, payload |-> <<>>]}

\* one iteration of LLRPReader._read_loop, after the report was parsed
Looped(reader, event, parsed) ==
    IF event.kind # "message"
    THEN [reader EXCEPT !.running = FALSE, !.pc = "ended"]     \* break / except; finally
    ELSE IF event.type # 61 THEN reader
    ELSE IF parsed.hang THEN [reader EXCEPT !.pc = "parsing"]
    ELSE [reader EXCEPT !.delivered = @ + Len(parsed.epcs)]

\* LLRPReader._read_loop, one iteration
_read_loop(reader, event) ==
    Looped(reader, event,
           _parse_epc_from_payload(event.payload, 1, [hang |-> FALSE, epcs |-> <<>>]))

\* RFIDReaderService._reader_loop_real up to the listener: the connect raises,
\* _setup_rospec fails, or the listener is started
_reader_loop_real(service, outcome) ==
    IF outcome = "ok"
    THEN [service EXCEPT !.connected = TRUE, !.pc = "listening"]
    ELSE [service EXCEPT !.connected = FALSE, !.running = FALSE, !.pc = "ended"]

\* RFIDReaderService._tag_report_handler: a report with a tag that is out of its
\* cooldown is handed to the tag callback; an exception while the report is taken apart is reported as
\* a status and the handler returns
_tag_report_handler(service, outcome) ==
    IF outcome = "tag" THEN [service EXCEPT !.delivered = @ + 1] ELSE service

-----------------------------------------------------------------------------
(* The decoder on its own: _parse_epc_from_payload applied to the payloads of
   up to MaxDecoded parameters, TV parameters among them *)

MaxDecoded == 3              \* parameters in one decoded payload

TagParams == [type : ParamTypes \cup {129, 255}, length : 0..MaxDecoded, epc : {1}]
DecodedPayloads == UNION {[1..n -> TagParams] : n \in 0..MaxDecoded}

\* what the call returned: None when it never returns, else the list of EPCs
Returned(parsed) == IF parsed.hang THEN None ELSE Some(parsed.epcs)

\* _read_loop, "epcs = self._parse_epc_from_payload(payload)", for the first
\* report of a connection; last.st is the payload, last.ret what the call returned
decode(payload) ==
    /\ last.op = "init"
    /\ last' = [NoCall EXCEPT
                  !.op = "_parse_epc_from_payload",
                  !.st = payload,
                  !.ret = Returned(_parse_epc_from_payload(payload, 1,
                                       [hang |-> FALSE, epcs |-> <<>>]))]
    /\ UNCHANGED <<ioVars, now, active, mgrVars, dbVars, logVars>>

NextDecoder == \E payload \in DecodedPayloads : decode(payload)

SpecDecoder == InitRouting /\ [][NextDecoder]_vars

-----------------------------------------------------------------------------
(* The stations on their own: for each station an LLRPReader and an
   RFIDReaderService, started, fed from the network and stopped *)

MaxDelivered == 2            \* tags one station hands on in one behaviour

\* LLRPReader.connect
reader_connect(s) ==
    /\ readers[s].pc = "new" /\ ~readers[s].sock
    /\ readers' = [readers EXCEPT ![s].sock = TRUE]
    /\ last' = Other
    /\ UNCHANGED <<now, active, mgrVars, dbVars, logVars, threads, services>>

\* LLRPReader.start_reading
start_reading(s) ==
    /\ readers[s].sock /\ ~readers[s].running /\ readers[s].pc = "new"
    /\ readers' = [readers EXCEPT ![s].running = TRUE, ![s].pc = "loop"]
    /\ last' = Other
    /\ UNCHANGED <<now, active, mgrVars, dbVars, logVars, threads, services>>

\* LLRPReader._read_loop, one iteration; last.st tells what kind of input it got
read_loop(s, event) ==
    /\ readers[s].pc = "loop" /\ readers[s].running
    /\ _read_loop(readers[s], event).delivered <= MaxDelivered
    /\ readers' = [readers EXCEPT ![s] = _read_loop(readers[s], event)]
    /\ last' = [NoCall EXCEPT !.op = "_read_loop", !.tp = s,
                  !.st = IF event.kind # "message" THEN event.kind
                         ELSE IF event.type = 61 /\ Malformed(event.payload) THEN "undecodable"
                         ELSE "message"]
    /\ UNCHANGED <<now, active, mgrVars, dbVars, logVars, threads, services>>

\* LLRPReader.stop: the loop ends at its next test of self.running
reader_stop(s) ==
    /\ readers[s].running
    /\ readers' = [readers EXCEPT ![s].running = FALSE,
                                  ![s].pc = IF @ = "loop" THEN "ended" ELSE @]
    /\ last' = Other
    /\ UNCHANGED <<now, active, mgrVars, dbVars, logVars, threads, services>>

\* RFIDReaderService.start
service_start(s) ==
    /\ ~services[s].running /\ services[s].pc = "new"
    /\ services' = [services EXCEPT ![s].running = TRUE, ![s].pc = "thread"]
    /\ last' = Other
    /\ UNCHANGED <<now, active, mgrVars, dbVars, logVars, threads, readers>>

\* RFIDReaderService._reader_loop_real: connect and set up
reader_loop_real(s, outcome) ==
    /\ services[s].pc = "thread"
    /\ services' = [services EXCEPT ![s] = _reader_loop_real(services[s], outcome)]
    /\ last' = [NoCall EXCEPT !.op = "_reader_loop_real", !.tp = s, !.st = outcome]
    /\ UNCHANGED <<now, active, mgrVars, dbVars, logVars, threads, readers>>

\* RFIDReaderService._tag_report_handler, called by the listener
tag_report_handler(s, outcome) ==
    /\ services[s].pc = "listening" /\ services[s].running
    /\ _tag_report_handler(services[s], outcome).delivered <= MaxDelivered
    /\ services' = [services EXCEPT ![s] = _tag_report_handler(services[s], outcome)]
    /\ last' = [NoCall EXCEPT !.op = "_tag_report_handler", !.tp = s, !.st = outcome]
    /\ UNCHANGED <<now, active, mgrVars, dbVars, logVars, threads, readers>>

\* RFIDReaderService.stop: the loop ends within its next sleep, the finally
\* clause stops the listener and disconnects
service_stop(s) ==
    /\ services[s].running /\ services[s].pc = "listening"
    /\ services' = [services EXCEPT ![s].running = FALSE, ![s].connected = FALSE,
                                    ![s].pc = "ended"]
    /\ last' = Other
    /\ UNCHANGED <<now, active, mgrVars, dbVars, logVars, threads, readers>>

NextStations ==
    \E s \in StationIds :
        \/ reader_connect(s)
        \/ start_reading(s)
        \/ \E event \in Events : read_loop(s, event)
        \/ reader_stop(s)
        \/ service_start(s)
        \/ \E outcome \in {"ok", "connect_fails", "rospec_fails"} : reader_loop_real(s, outcome)
        \/ \E outcome \in {"tag", "undecodable"} : tag_report_handler(s, outcome)
        \/ service_stop(s)

SpecStations == InitRouting /\ [][NextStations]_vars

-----------------------------------------------------------------------------
(* The standings during the race: every participant registered and somewhere
   on the course, the gun fired or not; results are recomputed and
   participants are marked DNF or DNS *)

\* How far a participant got, as the <<timing point, ticks after the gun>> of
\* their TimeRecords: nothing, the start, the split (early or late, with or
\* without the start), the finish without a start, the start and the finish
Journeys ==
    {<<>>, <<<<1, 1>>>>, <<<<3, 1>>>>, <<<<3, 2>>>>, <<<<1, 1>>, <<3, 2>>>>,
     <<<<2, MaxFinish>>>>}
    \cup {<<<<1, 1>>, <<2, t>>>> : t \in 2..MaxFinish}

\* the TimeRecords of the journeys, entered participant by participant
RECURSIVE JourneyRecords(_, _)
JourneyRecords(journey, p) ==
    IF p \notin Participants THEN <<>>
    ELSE [k \in DOMAIN journey[p] |->
            TimeRecord(p, journey[p][k][1], UtcOffset + journey[p][k][2], "manual")]
         \o JourneyRecords(journey, p + 1)

InitStandings ==
    /\ now = 0
    /\ active = FALSE
    /\ timing_points = Course
    /\ detection_modes = ConfiguredModes(Course)
    /\ tag_buffers = ConfiguredBuffers(Course)
    /\ \E gun \in {None, Some(UtcOffset)} :
          race = [start_time |-> gun, start_mode |-> "mass_start",
                  age_groups |-> Some([parses |-> TRUE, groups |-> <<Junior, Senior>>])]
    /\ participants = [p \in Participants |->
          [age |-> Some(30),
           gender |-> IF p = 1 THEN Some("M") ELSE IF p = 2 THEN Some("F") ELSE None,
           registered |-> TRUE]]
    /\ \E journey \in [Participants -> Journeys] :
          time_records = JourneyRecords(journey, 1)
    /\ results = <<>>
    /\ InitLogs
    /\ InitIdle

\* calculate_results and the marks; last tells which call was made
standings_recalculate ==
    /\ results' = calculate_results(time_records, results)
    /\ last' = [NoCall EXCEPT !.op = "calculate_results"]
    /\ UNCHANGED <<ioVars, now, active, mgrVars, cfgVars, time_records, logVars>>

standings_mark(participant_id, status) ==
    /\ HasResult(results, participant_id)
    /\ results' = mark_status(time_records, results, participant_id, status)
    /\ last' = [NoCall EXCEPT !.op = "mark", !.epc = participant_id]
    /\ UNCHANGED <<ioVars, now, active, mgrVars, cfgVars, time_records, logVars>>

\* ParticipantManager.update_participant(participant_id, gender=gender): a value
\* of None is not written
update_participant(participant_id, gender) ==
    /\ participants' = [participants EXCEPT ![participant_id].gender =
                           IF gender = None THEN @ ELSE gender]
    /\ last' = [NoCall EXCEPT !.op = "update_participant", !.epc = participant_id]
    /\ UNCHANGED <<ioVars, now, active, mgrVars, race, timing_points, time_records,
                   results, logVars>>

NextStandings ==
    \/ standings_recalculate
    \/ standings_mark(Entrant, "dnf")
    \/ standings_mark(Entrant, "dns")

SpecStandings == InitStandings /\ [][NextStandings]_vars

-----------------------------------------------------------------------------
(* The recompute of a participant's row: the course as configured, or a loop
   course whose start and finish are the same mat and carry the same name;
   records entered by hand, two of them at the start for some *)

\* add_timing_point sets no condition on the name
LoopCourse ==
    [tp \in TimingPointIds |->
       IF tp \in {1, 2} THEN [Course[tp] EXCEPT !.name = "Mat"] ELSE Course[tp]]

Passages ==
    {<<>>, <<<<1, 1>>>>, <<<<3, 2>>>>, <<<<2, MaxFinish>>>>, <<<<1, 1>>, <<2, MaxFinish>>>>,
     <<<<1, 2>>, <<1, 1>>, <<2, MaxFinish>>>>}

InitRecompute ==
    /\ now = 0
    /\ active = FALSE
    /\ timing_points \in {Course, LoopCourse}
    /\ detection_modes = ConfiguredModes(Course)
    /\ tag_buffers = ConfiguredBuffers(Course)
    /\ \E gun \in {None, Some(UtcOffset)} :
          race = [start_time |-> gun, start_mode |-> "mass_start",
                  age_groups |-> Some([parses |-> TRUE, groups |-> <<Junior, Senior>>])]
    /\ participants = [p \in Participants |->
          [age |-> Some(30),
           gender |-> IF p = 1 THEN Some("M") ELSE IF p = 2 THEN Some("F") ELSE None,
           registered |-> TRUE]]
    /\ \E journey \in [Participants -> Passages] :
          time_records = JourneyRecords(journey, 1)
    /\ results = <<>>
    /\ InitLogs
    /\ InitIdle

SpecRecompute == InitRecompute /\ [][NextStandings]_vars

-----------------------------------------------------------------------------
(* The categories and genders of the standings: a mass-start race whose gun
   has gone, participants of two age groups, genders edited during the race *)

Genders == {None, Some("M"), Some("F"), Some("")}

\* nothing recorded, or the finish crossed at 2 or at MaxFinish
Crossings == {<<>>, <<<<2, 2>>>>, <<<<2, MaxFinish>>>>}

InitCategories ==
    /\ now = 0
    /\ active = FALSE
    /\ timing_points = Course
    /\ detection_modes = ConfiguredModes(Course)
    /\ tag_buffers = ConfiguredBuffers(Course)
    /\ race = [start_time |-> Some(UtcOffset), start_mode |-> "mass_start",
               age_groups |-> Some([parses |-> TRUE, groups |-> <<Junior, Senior>>])]
    /\ \E age \in [Participants -> {15, 30}] :
          participants = [p \in Participants |->
              [age |-> Some(age[p]),
               gender |-> IF p = 1 THEN Some("M") ELSE IF p = 2 THEN Some("F") ELSE None,
               registered |-> TRUE]]
    /\ \E journey \in [Participants -> Crossings] :
          time_records = JourneyRecords(journey, 1)
    /\ results = <<>>
    /\ InitLogs
    /\ InitIdle

NextCategories ==
    \/ standings_recalculate
    \/ standings_mark(Entrant, "dnf")
    \/ \E p \in {Entrant, 2}, gender \in Genders : update_participant(p, gender)

SpecCategories == InitCategories /\ [][NextCategories]_vars

-----------------------------------------------------------------------------
(* Claims about the detection buffer, checked under SpecBuffer *)

\* C1: in every detection mode, a tag of which exactly one read was handed to a
\* timing point's buffer has produced at most one detection; while it has produced
\* none its window is still open, and no sweep leaves that window open once
\* window_seconds have elapsed since it was opened.  So the single read yields
\* exactly one detection once the window expired and the sweep ran, never zero
\* and never two.
C1_SingleReadSingleDetection ==
    \A e \in Epcs :
        submitted[1][e] = 1 =>
            /\ produced[1][e] <= 1
            /\ produced[1][e] = 0 =>
                  /\ HasWindow(tag_buffers[1], e)
                  /\ last.op = "check_all_expired_windows" =>
                        now - WindowStart(tag_buffers[1], e) < tag_buffers[1].window_seconds

\* a peak_rssi window holding a single read has just been finalized by the sweep
C1_Witness ==
    /\ detection_modes[1] = "peak_rssi"
    /\ submitted[1][1] = 1
    /\ produced[1][1] = 1
    /\ last.op = "check_all_expired_windows"
    /\ Len(last.ret) = 1

\* C2: a read handed to a first_seen buffer is finalized at once with its own
\* timestamp and strength when the tag was never finalized there or at least
\* window_seconds have passed since its last finalize; otherwise it is suppressed:
\* nothing is returned, no callback runs and the buffer is unchanged.
C2_FirstSeenDedup ==
    [][\A e \in Epcs, rssi \in RssiValues, timestamp \in Times :
          (/\ detection_modes[1] = "first_seen"
           /\ last'.op = "add_read" /\ last'.epc = e
           /\ BufferRead(1, e, rssi, timestamp)) =>
             LET tb == tag_buffers[1]
                 lp == tb.last_processed[e]
             IN  IF lp = None \/ now - Val(lp) >= tb.window_seconds
                 THEN /\ last'.ret = Some(Detection(e, RInt(timestamp), RInt(rssi)))
                      /\ last'.cb = (IF tb.callback THEN 1 ELSE 0)
                      /\ tag_buffers'[1].last_processed[e] = Some(now)
                 ELSE /\ last'.ret = None
                      /\ last'.cb = 0
                      /\ tag_buffers' = tag_buffers]_vars

\* first read finalized, second suppressed, third finalized after the window
C2_Witness ==
    /\ detection_modes[1] = "first_seen"
    /\ submitted[1][1] = 3
    /\ produced[1][1] = 2
    /\ last.op = "add_read" /\ last.epc = 1 /\ last.ret # None

\* the reads a last_seen finalize of tag e chose from, the detection d it made:
\* d is the only detection of e returned and has the timestamp and strength of
\* one read of greatest timestamp
LatestOf(reads, ret, e) ==
    /\ Cardinality({i \in DOMAIN ret : ret[i].epc = e}) = 1
    /\ \E i \in DOMAIN reads :
          /\ \A j \in DOMAIN reads : reads[j].timestamp <= reads[i].timestamp
          /\ \E k \in DOMAIN ret :
                ret[k] = Detection(e, RInt(reads[i].timestamp), RInt(reads[i].rssi))

\* C16: in last_seen mode, when the window of a tag is finalized (by the read
\* that finds it expired, which is buffered first, or by the sweep) the one
\* detection returned carries the timestamp and strength of a buffered read of
\* greatest timestamp, and the buffer and the window start of the tag are
\* cleared; a read of a tag that has no window returns no detection, opens a
\* window at the current time and is the only read buffered.
C16_LastSeenFinalize ==
    [][\A e \in Participants :
          /\ (/\ detection_modes[1] = "last_seen"
              /\ HasWindow(tag_buffers[1], e) /\ ~HasWindow(tag_buffers'[1], e))
             => /\ tag_buffers'[1].buffers[e] = <<>>
                /\ last'.op = "check_all_expired_windows"
                      => LatestOf(tag_buffers[1].buffers[e], last'.ret, e)
                /\ last'.op = "add_read"
                      => \E rssi \in RssiValues, timestamp \in Times :
                            /\ BufferRead(1, e, rssi, timestamp)
                            /\ LatestOf(Append(tag_buffers[1].buffers[e],
                                               [rssi |-> rssi, timestamp |-> timestamp]),
                                        last'.ret, e)
          /\ (/\ detection_modes[1] = "last_seen"
              /\ last'.op = "add_read" /\ last'.epc = e
              /\ ~HasWindow(tag_buffers[1], e))
             => /\ last'.ret = None
                /\ Len(tag_buffers'[1].buffers[e]) = 1
                /\ HasWindow(tag_buffers'[1], e)
                /\ WindowStart(tag_buffers'[1], e) = now]_vars

\* C30: in last_seen and peak_rssi modes, a read of a tag that arrives when the
\* window of the tag has already elapsed is no part of the detection finalized
\* for that window: the detection returned is the one the reads buffered
\* before it give, and the late read opens a new window at the current time,
\* where it is the only read buffered.
C30_LateReadOpensNewWindow ==
    [][\A e \in Participants, rssi \in RssiValues, timestamp \in Times :
          (/\ detection_modes[1] \in {"last_seen", "peak_rssi"}
           /\ HasWindow(tag_buffers[1], e)
           /\ now - WindowStart(tag_buffers[1], e) >= tag_buffers[1].window_seconds
           /\ BufferRead(1, e, rssi, timestamp))
          => /\ last'.ret = _finalize_detection(tag_buffers[1], e, detection_modes[1], now).ret
             /\ HasWindow(tag_buffers'[1], e)
             /\ WindowStart(tag_buffers'[1], e) = now
             /\ tag_buffers'[1].buffers[e] = <<[rssi |-> rssi, timestamp |-> timestamp]>>]_vars

\* two reads of a tag were finalized as one detection, a third has opened a
\* fresh window and is alone in the buffer
C16_Witness ==
    /\ detection_modes[1] = "last_seen"
    /\ submitted[1][1] = 3 /\ produced[1][1] = 1
    /\ last.op = "add_read" /\ last.epc = 1 /\ last.ret = None
    /\ tag_buffers[1].last_processed[1] # None
    /\ Len(tag_buffers[1].buffers[1]) = 1

-----------------------------------------------------------------------------
(* Claims about the peak_rssi mode, checked under SpecPeak *)

\* np.polyfit of the reads as _calculate_peak_rssi calls it
FitOf(reads) ==
    Polyfit2([i \in DOMAIN reads |->
                 reads[i].timestamp - SeqMin([j \in DOMAIN reads |-> reads[j].timestamp])],
             [i \in DOMAIN reads |-> reads[i].rssi])

\* the one detection of tag e in ret has the timestamp and the strength of a
\* read of greatest strength
StrongestOf(reads, ret, e) ==
    /\ Cardinality({i \in DOMAIN ret : ret[i].epc = e}) = 1
    /\ \E i \in DOMAIN reads :
          /\ \A j \in DOMAIN reads : reads[j].rssi <= reads[i].rssi
          /\ \E k \in DOMAIN ret :
                ret[k] = Detection(e, RInt(reads[i].timestamp), RInt(reads[i].rssi))

\* fewer than three reads, or a fit that does not open downward
FallsBack(reads, fit) == Len(reads) < 3 \/ (fit.ok /\ RLeq(RInt(0), fit.a))

\* C17: when a peak_rssi window is finalized with fewer than 3 reads buffered,
\* or with a fitted quadratic whose leading coefficient is >= 0, the detection
\* is one of the buffered reads, one of maximum strength, with exactly its
\* timestamp and strength.
C17_PeakFallback ==
    [][(/\ HasWindow(tag_buffers[1], Entrant) /\ ~HasWindow(tag_buffers'[1], Entrant))
       => /\ (/\ last'.op = "check_all_expired_windows"
               /\ FallsBack(tag_buffers[1].buffers[Entrant],
                            FitOf(tag_buffers[1].buffers[Entrant])))
             => StrongestOf(tag_buffers[1].buffers[Entrant], last'.ret, Entrant)
          /\ last'.op = "add_read"
             => \E rssi \in PeakRssi, timestamp \in Times :
                   /\ BufferRead(1, Entrant, rssi, timestamp)
                   /\ FallsBack(Append(tag_buffers[1].buffers[Entrant],
                                       [rssi |-> rssi, timestamp |-> timestamp]),
                                FitOf(Append(tag_buffers[1].buffers[Entrant],
                                             [rssi |-> rssi, timestamp |-> timestamp])))
                      => StrongestOf(Append(tag_buffers[1].buffers[Entrant],
                                            [rssi |-> rssi, timestamp |-> timestamp]),
                                     last'.ret, Entrant)]_vars

\* two reads, of strength 10 at time 0 and of strength 25 at another time,
\* were finalized by the sweep as the read of strength 25
C17_Witness ==
    /\ submitted[1][Entrant] = 2 /\ produced[1][Entrant] = 1
    /\ last.op = "check_all_expired_windows"
    /\ last.ret = <<Detection(Entrant, RInt(1), RInt(25))>>

\* the time reported for a downward fit: the vertex, clamped to the reads' range
ClampedVertex(reads, fit) ==
    LET t_min == SeqMin([j \in DOMAIN reads |-> reads[j].timestamp])
        t_max == SeqMax([j \in DOMAIN reads |-> reads[j].timestamp])
    IN  RMax(RInt(t_min),
             RMin(RAdd(RDiv(RSub(RInt(0), fit.b), RMul(RInt(2), fit.a)), RInt(t_min)),
                  RInt(t_max)))

\* the fitted curve at time t (the fit is over times counted from the first read)
CurveAt(reads, fit, t) ==
    LET x == RSub(t, RInt(SeqMin([j \in DOMAIN reads |-> reads[j].timestamp])))
    IN  RAdd(RAdd(RMul(fit.a, RMul(x, x)), RMul(fit.b, x)), fit.c)

\* the one detection of tag e in ret is at the clamped vertex, with the
\* strength of the curve at that time
AtClampedVertex(reads, fit, ret, e) ==
    /\ Cardinality({i \in DOMAIN ret : ret[i].epc = e}) = 1
    /\ \E k \in DOMAIN ret :
          /\ ret[k].epc = e
          /\ ret[k].timestamp = ClampedVertex(reads, fit)
          /\ ret[k].rssi = CurveAt(reads, fit, ret[k].timestamp)

\* C18: when a peak_rssi window is finalized by the sweep with at least 3 reads
\* buffered, at 3 or more distinct times (so that the least-squares quadratic
\* is unique), and the fitted quadratic opens downward, the detection's time
\* is the vertex clamped to [earliest, latest] read time and its strength is
\* the fitted curve at that reported time.
C18_ClampedVertexStrength ==
    [][(/\ HasWindow(tag_buffers[1], Entrant) /\ ~HasWindow(tag_buffers'[1], Entrant)
        /\ last'.op = "check_all_expired_windows"
        /\ Len(tag_buffers[1].buffers[Entrant]) >= 3
        /\ Cardinality({r.timestamp : r \in Range(tag_buffers[1].buffers[Entrant])}) >= 3
        /\ FitOf(tag_buffers[1].buffers[Entrant]).ok
        /\ RLess(FitOf(tag_buffers[1].buffers[Entrant]).a, RInt(0)))
       => AtClampedVertex(tag_buffers[1].buffers[Entrant],
                          FitOf(tag_buffers[1].buffers[Entrant]), last'.ret, Entrant)]_vars

-----------------------------------------------------------------------------
(* Claims about routing and the results engine, checked under Spec *)

\* C3: a finalized detection of a known participant that the chip-start rule
\* does not take is written, as one new llrp TimeRecord, at the timing point of
\* lowest order among those the participant has no TimeRecord at, whichever
\* station sent the read and whichever station that timing point expects.
C3_RoutedToLowestUnrecorded ==
    [][(/\ last'.op = "process_tag_read"
        /\ last'.ret # None
        /\ ~(/\ race.start_mode = "chip_start"
             /\ \A i \in DOMAIN time_records : time_records[i].participant_id # last'.epc))
       => LET p == last'.epc
              unrecorded == {tp \in TimingPointIds :
                               \A i \in DOMAIN time_records :
                                  ~(/\ time_records[i].participant_id = p
                                    /\ time_records[i].timing_point_id = tp)}
          IN  unrecorded # {} =>
                /\ Len(time_records') = Len(time_records) + 1
                /\ SubSeq(time_records', 1, Len(time_records)) = time_records
                /\ LET rec == time_records'[Len(time_records')]
                   IN  /\ rec.participant_id = p
                       /\ rec.source = "llrp"
                       /\ rec.timing_point_id \in unrecorded
                       /\ \A o \in unrecorded :
                             timing_points[rec.timing_point_id].order <= timing_points[o].order]_vars

\* the finish was entered by hand; a detection finalized by the buffer of the
\* finish (station 2) is then written at the start, which expects station 1
C3_Witness ==
    /\ race.start_mode = "mass_start"
    /\ last.op = "process_tag_read" /\ last.st = Some(2) /\ last.tp = 2 /\ last.ret # None
    /\ Len(time_records) = 2
    /\ time_records[1].timing_point_id = 2 /\ time_records[1].source = "manual"
    /\ time_records[2].timing_point_id = 1 /\ time_records[2].source = "llrp"
    /\ timing_points[1].llrp_station_id = Some(1)

\* C4 as stated: in a chip-start race a finalized detection of a participant
\* without TimeRecords is written at the start timing point, and afterwards the
\* participant's row is Started with start_time the detection's timestamp.
C4_ChipStartAlwaysStarted ==
    [][(/\ last'.op = "process_tag_read"
        /\ last'.ret # None
        /\ race.start_mode = "chip_start"
        /\ \A i \in DOMAIN time_records : time_records[i].participant_id # last'.epc)
       => /\ Len(time_records') = Len(time_records) + 1
          /\ LET rec == time_records'[Len(time_records')]
             IN  /\ rec.participant_id = last'.epc
                 /\ timing_points[rec.timing_point_id].is_start
                 /\ rec.timestamp = fromtimestamp(Val(last'.ret).timestamp)
                 /\ HasResult(results', last'.epc)
                 /\ LET row == results'[ResultIdx(results', last'.epc)]
                    IN  /\ row.status = "started"
                        /\ row.start_time = Some(rec.timestamp)]_vars

\* C4: in a chip-start race a finalized detection of a participant without
\* TimeRecords is written at the start timing point, and afterwards the
\* participant's row has start_time the detection's timestamp and is Started,
\* unless the row was DNF or DNS before, which it then still is.
C4_ChipStartFirstDetection ==
    [][(/\ last'.op = "process_tag_read"
        /\ last'.ret # None
        /\ race.start_mode = "chip_start"
        /\ \A i \in DOMAIN time_records : time_records[i].participant_id # last'.epc)
       => /\ Len(time_records') = Len(time_records) + 1
          /\ LET rec == time_records'[Len(time_records')]
             IN  /\ rec.participant_id = last'.epc
                 /\ timing_points[rec.timing_point_id].is_start
                 /\ rec.timestamp = fromtimestamp(Val(last'.ret).timestamp)
                 /\ HasResult(results', last'.epc)
                 /\ LET row == results'[ResultIdx(results', last'.epc)]
                        kept == /\ HasResult(results, last'.epc)
                                /\ results[ResultIdx(results, last'.epc)].status \in {"dnf", "dns"}
                    IN  /\ row.status = IF kept
                                        THEN results[ResultIdx(results, last'.epc)].status
                                        ELSE "started"
                        /\ row.start_time = Some(rec.timestamp)]_vars

\* the first detection came from the buffer of the finish and was written at
\* the start, after the gun time had been set
C4_Witness ==
    /\ race.start_mode = "chip_start" /\ race.start_time # None
    /\ last.op = "process_tag_read" /\ last.tp = 2 /\ last.ret # None
    /\ Len(time_records) = 1
    /\ time_records[1].timing_point_id = 1 /\ time_records[1].source = "llrp"
    /\ time_records[1].timestamp > Val(race.start_time)
    /\ HasResult(results, Entrant)
    /\ results[ResultIdx(results, Entrant)].status = "started"
    /\ results[ResultIdx(results, Entrant)].start_time = Some(time_records[1].timestamp)

\* C5: no two TimeRecords have the same participant and timing point.
C5_OneRecordPerPair ==
    \A i, j \in DOMAIN time_records :
        (/\ time_records[i].participant_id = time_records[j].participant_id
         /\ time_records[i].timing_point_id = time_records[j].timing_point_id) => i = j

\* C6: a row has a total_time exactly when it is Finished with start_time and
\* finish_time set.
C6_TotalTimeIffFinished ==
    \A i \in DOMAIN results :
        results[i].total_time # None <=>
            /\ results[i].status = "finished"
            /\ results[i].start_time # None
            /\ results[i].finish_time # None

\* C8: when the row of a participant is DNF or DNS and a TimeRecord of that
\* participant at the finish is written, the row is Finished afterwards.
C8_FinishOverridesDnf ==
    [][\A p \in Participants :
          (/\ HasResult(results, p)
           /\ results[ResultIdx(results, p)].status \in {"dnf", "dns"}
           /\ Len(time_records') = Len(time_records) + 1
           /\ time_records'[Len(time_records')].participant_id = p
           /\ timing_points[time_records'[Len(time_records')].timing_point_id].is_finish)
          => results'[ResultIdx(results', p)].status = "finished"]_vars

\* C22: a recompute (after a routed read, after a manual entry, or of the whole
\* race) leaves the status of a dnf or dns row as it is when the participant
\* has no TimeRecord at a finish timing point: neither the gun time of the
\* race nor records at the start or at intermediate points make it started.
C22_DnfKeptUntilFinish ==
    [][\A p \in Participants :
          (/\ HasResult(results, p)
           /\ results[ResultIdx(results, p)].status \in {"dnf", "dns"}
           /\ \/ last'.op \in {"process_tag_read", "calculate_results"}
              \/ Len(time_records') > Len(time_records)
           /\ \A k \in DOMAIN time_records' :
                 time_records'[k].participant_id = p
                 => ~timing_points[time_records'[k].timing_point_id].is_finish)
          => /\ HasResult(results', p)
             /\ results'[ResultIdx(results', p)].status
                  = results[ResultIdx(results, p)].status]_vars

\* the gun has gone and the entrant, marked dnf, has just got a TimeRecord at
\* the start from a routed read: the row is still dnf
C22_Witness ==
    /\ race.start_time # None
    /\ last.op = "process_tag_read" /\ last.epc = Entrant /\ last.ret # None
    /\ time_records # <<>>
    /\ time_records[Len(time_records)].participant_id = Entrant
    /\ time_records[Len(time_records)].source = "llrp"
    /\ timing_points[time_records[Len(time_records)].timing_point_id].is_start
    /\ HasResult(results, Entrant)
    /\ results[ResultIdx(results, Entrant)].status = "dnf"

\* C10: while the race control is not active, a submitted read leaves the
\* TimeRecords, the result rows and the detection buffers as they are.
C10_InactiveReadChangesNothing ==
    [][(last'.op = "process_tag_read" /\ ~active)
       => UNCHANGED <<time_records, results, tag_buffers, detection_modes>>]_vars

\* timing was stopped after a detection at the start; a read of the same tag at
\* the same station, late enough to be a new detection, was then submitted
C10_Witness ==
    /\ ~active
    /\ last.op = "process_tag_read" /\ last.st = Some(1) /\ last.epc = Entrant
    /\ tag_buffers[1].last_processed[Entrant] # None
    /\ now - Val(tag_buffers[1].last_processed[Entrant]) >= tag_buffers[1].window_seconds
    /\ Len(time_records) = 1

-----------------------------------------------------------------------------
(* Claims about routing, checked under SpecRouting *)

\* C11: a read whose tag is no participant's, or whose station serves no timing
\* point of the race, or whose participant has a TimeRecord at every timing
\* point of the race, is dropped: process_tag_read returns, the TimeRecords and
\* the result rows are as before.
C11_UnresolvableDiscarded ==
    [][(/\ last'.op = "process_tag_read"
        /\ \/ last'.epc \notin Participants
           \/ \A tp \in TimingPointIds : timing_points[tp].llrp_station_id # last'.st
           \/ \A tp \in TimingPointIds : \E i \in DOMAIN time_records :
                 /\ time_records[i].participant_id = last'.epc
                 /\ time_records[i].timing_point_id = tp)
       => UNCHANGED <<time_records, results>>]_vars

\* the entrant has a TimeRecord at every timing point and the buffer of the
\* start has just finalized one more detection of their tag
C11_Witness ==
    /\ last.op = "process_tag_read" /\ last.epc = Entrant /\ last.ret # None
    /\ last.tp = 1 /\ produced[1][Entrant] = 3
    /\ Len(time_records) = 3
    /\ \A tp \in TimingPointIds : \E i \in DOMAIN time_records :
          time_records[i].participant_id = Entrant /\ time_records[i].timing_point_id = tp
    /\ \E i \in DOMAIN time_records : time_records[i].source = "manual"

\* C13: while timing is active, a window that a read opened in the last_seen
\* buffer of the finish is in the end finalized, whether or not another read
\* of the tag arrives.
C13_WindowEventuallyFinalized ==
    \A e \in Epcs :
        (active /\ HasWindow(tag_buffers[2], e)) ~> (~active \/ ~HasWindow(tag_buffers[2], e))

-----------------------------------------------------------------------------
(* Claims about concurrent deliveries, checked under SpecConcurrent *)

\* C12: the step from the lookup of the next timing point to the end of the
\* recompute is exclusive: no two threads are inside it at once, so no two
\* deliveries in flight for one participant hold the same timing point.
C12_ExclusiveWriteRecompute ==
    /\ Cardinality({t \in Threads : threads[t].pc # "idle"}) <= 1
    /\ \A s, t \in Threads :
          (s # t /\ threads[s].pc # "idle" /\ threads[t].pc # "idle")
          => ~(/\ threads[s].participant = threads[t].participant
               /\ threads[s].tp = threads[t].tp)

-----------------------------------------------------------------------------
(* A station shared with another active race: llrp_tag_callback hands every
   read of the station to every active RaceControl, so this race also receives
   the tags of the other race's participants.  Visitor is registered in the
   other race only. *)

Visitor == 2

NextShared ==
    \/ Tick
    \/ \E epc \in {Entrant, Visitor}, station_id \in Stations :
          process_tag_read(epc, now, station_id, None)

SpecShared == InitRouting /\ [][NextShared]_vars

\* C29: every TimeRecord and every ResultRow that detection routing writes for
\* the race belongs to a participant registered in the race; a tag of a
\* participant registered only in another race sharing the station leaves
\* neither.
C29_RecordsOfRegisteredOnly ==
    /\ \A i \in DOMAIN time_records : participants[time_records[i].participant_id].registered
    /\ \A i \in DOMAIN results : participants[results[i].participant_id].registered

-----------------------------------------------------------------------------
(* One station service started and stopped repeatedly, with the simulated
   loop: services[1] is the RFIDReaderService (thread is self.thread, pc tells
   whether a stop() is waiting in its join), threads are the loop threads it
   has created *)

\* RFIDReaderService.start: refused while running, else a new loop thread
service_restart(t) ==
    /\ ~services[1].running /\ services[1].pc # "joining"
    /\ threads[t].pc = "idle" /\ \A u \in Threads : u < t => threads[u].pc # "idle"
    /\ services' = [services EXCEPT ![1].running = TRUE, ![1].thread = t, ![1].pc = "started"]
    /\ threads' = [threads EXCEPT ![t].pc = "loop"]
    /\ last' = [NoCall EXCEPT !.op = "start", !.tp = t]
    /\ UNCHANGED <<now, active, mgrVars, dbVars, logVars, readers>>

\* _reader_loop_simulation, "while self.running": the loop goes to sleep, or
\* leaves through the finally clause, which clears self.running
loop_test(t) ==
    /\ threads[t].pc = "loop"
    /\ threads' = [threads EXCEPT ![t].pc = IF services[1].running THEN "sleep" ELSE "ended"]
    /\ services' = IF services[1].running THEN services
                   ELSE [services EXCEPT ![1].running = FALSE]
    /\ last' = Other
    /\ UNCHANGED <<now, active, mgrVars, dbVars, logVars, readers>>

\* _reader_loop_simulation, "if not self.running: break" after the sleep
loop_wake(t) ==
    /\ threads[t].pc = "sleep"
    /\ threads' = [threads EXCEPT ![t].pc = IF services[1].running THEN "deliver" ELSE "ended"]
    /\ services' = IF services[1].running THEN services
                   ELSE [services EXCEPT ![1].running = FALSE]
    /\ last' = Other
    /\ UNCHANGED <<now, active, mgrVars, dbVars, logVars, readers>>

\* _reader_loop_simulation, the tag picked: dropped within its cooldown, else
\* handed to the tag callback by _tag_read_handler
loop_deliver(t, cooled) ==
    /\ threads[t].pc = "deliver"
    /\ services[1].delivered < MaxDelivered
    /\ threads' = [threads EXCEPT ![t].pc = "loop"]
    /\ services' = IF cooled THEN [services EXCEPT ![1].delivered = @ + 1] ELSE services
    /\ last' = IF cooled THEN [NoCall EXCEPT !.op = "tag_callback", !.tp = t] ELSE Other
    /\ UNCHANGED <<now, active, mgrVars, dbVars, logVars, readers>>

\* RFIDReaderService.stop up to the join
service_stop_begin ==
    /\ services[1].running /\ services[1].pc = "started"
    /\ services' = [services EXCEPT ![1].running = FALSE, ![1].pc = "joining"]
    /\ last' = Other
    /\ UNCHANGED <<now, active, mgrVars, dbVars, logVars, readers, threads>>

\* RFIDReaderService.stop, self.thread.join(timeout=5) returns: the loop has
\* ended, or the five seconds have passed
service_stop_return(timed_out) ==
    /\ services[1].pc = "joining"
    /\ timed_out \/ threads[services[1].thread].pc = "ended"
    /\ services' = [services EXCEPT ![1].pc = "stopped"]
    /\ last' = Other
    /\ UNCHANGED <<now, active, mgrVars, dbVars, logVars, readers, threads>>

NextRestart ==
    \/ \E t \in Threads : service_restart(t)
    \/ \E t \in Threads : loop_test(t)
    \/ \E t \in Threads : loop_wake(t)
    \/ \E t \in Threads, cooled \in BOOLEAN : loop_deliver(t, cooled)
    \/ service_stop_begin
    \/ \E timed_out \in BOOLEAN : service_stop_return(timed_out)

SpecRestart == InitRouting /\ [][NextRestart]_vars

\* C28: for one station service, over any sequence of start() and stop(), at
\* most one loop thread is alive at any time, also when the join of stop() has
\* timed out and start() is called again; and a loop delivers a tag to the
\* callback only while it is the thread of the service and no stop() has
\* returned since it was started.
C28_OneLiveLoop ==
    /\ Cardinality({t \in Threads : threads[t].pc \notin {"idle", "ended"}}) <= 1
    /\ last.op = "tag_callback" => last.tp = services[1].thread /\ services[1].pc # "stopped"

-----------------------------------------------------------------------------
(* Claims about the decoder, checked under SpecDecoder *)

\* a payload of one TagReportData that holds parameters of unknown type, TLV
\* ones of a well-formed length or TV ones, and after them an EPC-96 parameter
UnknownsThenEpc(payload) ==
    /\ Len(payload) >= 2
    /\ payload[1].type = 240 /\ payload[1].length = Len(payload)
    /\ payload[Len(payload)].type = 13 /\ payload[Len(payload)].length = 1
    /\ \A i \in 2..(Len(payload) - 1) :
          payload[i].type \in {0, 255} /\ payload[i].length = 1

\* C26: from a tag report whose EPC parameter follows any number of parameters
\* of unknown type, in the TV or in the TLV encoding, the decoder returns the
\* EPC: the unknown parameters are skipped.
C26_UnknownParametersSkipped ==
    (last.op = "_parse_epc_from_payload" /\ UnknownsThenEpc(last.st))
    => last.ret = Some(<<last.st[Len(last.st)].epc>>)

\* C27: the decoding of every payload returns: no parameter with a length
\* field of 0 keeps the decoder at one offset for ever.
C27_DecodingTerminates ==
    last.op = "_parse_epc_from_payload" => last.ret # None

-----------------------------------------------------------------------------
(* Claims about the stations, checked under SpecStations *)

\* C15: when the receive loop of a station meets a closed connection, a short
\* read, a read error or a report it cannot decode, or when its connect or
\* set-up fails, the station is afterwards not running, its loop has ended and
\* it is disconnected, and every other station is as it was.
C15_FailureStopsStation ==
    [][\A s \in StationIds :
          /\ (/\ last'.op = "_read_loop" /\ last'.tp = s
              /\ last'.st \in {"closed", "short", "error", "undecodable"})
             => /\ ~readers'[s].running /\ readers'[s].pc = "ended"
                /\ \A o \in StationIds \ {s} : readers'[o] = readers[o]
                /\ services' = services
          /\ (/\ last'.op = "_reader_loop_real" /\ last'.tp = s
              /\ last'.st \in {"connect_fails", "rospec_fails"})
             => /\ ~services'[s].running /\ ~services'[s].connected
                /\ services'[s].pc = "ended"
                /\ \A o \in StationIds \ {s} : services'[o] = services[o]
                /\ readers' = readers
          /\ (/\ last'.op = "_tag_report_handler" /\ last'.tp = s
              /\ last'.st = "undecodable")
             => /\ ~services'[s].running /\ ~services'[s].connected
                /\ services'[s].pc = "ended"
                /\ \A o \in StationIds \ {s} : services'[o] = services[o]
                /\ readers' = readers]_vars

-----------------------------------------------------------------------------
(* Claims about the standings, checked under SpecStandings *)

\* C14: after a ranking pass the N rows that are Finished or Started hold the
\* overall ranks 1..N, each once; every Finished row ranks ahead of every
\* Started row; and of two Finished rows the one with the smaller total_time
\* ranks ahead, a row without total_time behind every row that has one.
C14_OverallRanks ==
    results # <<>> =>
      LET ranked == {i \in DOMAIN results : results[i].status \in {"finished", "started"}}
          fin    == {i \in ranked : results[i].status = "finished"}
          rank(i) == Val(results[i].overall_rank)
      IN  /\ \A i \in ranked : results[i].overall_rank # None
          /\ {rank(i) : i \in ranked} = 1..Cardinality(ranked)
          /\ \A i, j \in ranked : rank(i) = rank(j) => i = j
          /\ \A i \in fin, j \in ranked \ fin : rank(i) < rank(j)
          /\ \A i, j \in fin :
                (/\ results[i].total_time # None
                 /\ (results[j].total_time = None
                     \/ Val(results[i].total_time) < Val(results[j].total_time)))
                => rank(i) < rank(j)

\* three rows in the order Started, Finished without total_time, Finished with
\* total_time have just been ranked 3, 2, 1
C14_Witness ==
    /\ last.op = "calculate_results"
    /\ Len(results) = 3
    /\ results[1].status = "started" /\ results[1].overall_rank = Some(3)
    /\ results[2].status = "finished" /\ results[2].total_time = None
    /\ results[2].overall_rank = Some(2)
    /\ results[3].status = "finished" /\ results[3].total_time # None
    /\ results[3].overall_rank = Some(1)

\* C21: after every ranking pass (of a recompute or of a mark), each ranked row
\* has as category_rank its position by overall_rank among the ranked rows of
\* its category, a ranked row of a participant with a known gender has as
\* gender_rank its position by overall_rank among the ranked rows of that
\* gender, and a ranked row of a participant of unknown gender has no gender_rank.
C21_CategoryAndGenderRanks ==
    last.op \in {"calculate_results", "mark"} =>
        \A i \in DOMAIN results :
            results[i].status \in {"finished", "started"} =>
                /\ results[i].overall_rank # None
                /\ results[i].category_rank =
                      Some(Cardinality({j \in DOMAIN results :
                          /\ results[j].status \in {"finished", "started"}
                          /\ results[j].category = results[i].category
                          /\ Val(results[j].overall_rank) <= Val(results[i].overall_rank)}))
                /\ results[i].gender_rank =
                      IF KnownGender(participants[results[i].participant_id].gender)
                      THEN Some(Cardinality({j \in DOMAIN results :
                              /\ results[j].status \in {"finished", "started"}
                              /\ participants[results[j].participant_id].gender
                                    = participants[results[i].participant_id].gender
                              /\ Val(results[j].overall_rank) <= Val(results[i].overall_rank)}))
                      ELSE None

\* the earliest timestamp among the TimeRecords of participant p at the timing
\* points of the given kind, None when p has no such record
EarliestAt(p, kind) ==
    LET at == {k \in DOMAIN time_records :
                  /\ time_records[k].participant_id = p
                  /\ timing_points[time_records[k].timing_point_id][kind]}
    IN  IF at = {} THEN None
        ELSE Some(time_records[CHOOSE k \in at : \A m \in at :
                         time_records[k].timestamp <= time_records[m].timestamp].timestamp)

\* C23: after a recompute, each row has as start_time the earliest timestamp
\* of the participant's records at the start timing point when there is one,
\* else the gun time of the race when set, else None; as finish_time the
\* earliest timestamp of the records at the finish timing point or None; and
\* as total_time their difference when both are set, else None.
C23_DerivedTimes ==
    last.op = "calculate_results" =>
        \A i \in DOMAIN results :
            /\ results[i].start_time =
                  (IF EarliestAt(results[i].participant_id, "is_start") # None
                   THEN EarliestAt(results[i].participant_id, "is_start")
                   ELSE race.start_time)
            /\ results[i].finish_time = EarliestAt(results[i].participant_id, "is_finish")
            /\ results[i].total_time =
                  (IF results[i].start_time # None /\ results[i].finish_time # None
                   THEN Some(Val(results[i].finish_time) - Val(results[i].start_time))
                   ELSE None)

\* C24: a ranking pass made while the age-group definition of the race is
\* malformed (it does not parse, or a group lacks a key) gives every finished
\* or started row its overall, category and gender rank and leaves every such
\* row in the category "Open", whatever its category was before.
C24_MalformedGroupsGiveOpen ==
    [][(last'.op = "calculate_results" /\ IsMalformed(race.age_groups))
       => \A i \in DOMAIN results' :
             results'[i].status \in {"finished", "started"}
             => /\ results'[i].overall_rank # None
                /\ results'[i].category_rank # None
                /\ results'[i].gender_rank # None
                /\ results'[i].category = "Open"]_vars

\* C25: when aging down has returned, for the younger and the older age group
\* of the race: if the younger one has a finished member, no finished row of
\* the older group has a total_time strictly smaller than the smallest
\* total_time of the younger group, however many finishers there are.
C25_AgingDownFixpoint ==
    last.op = "_apply_aging_down" =>
        \A y \in DOMAIN results :
            (/\ results[y].status = "finished" /\ results[y].category = "Junior"
             /\ \A z \in DOMAIN results :
                   (results[z].status = "finished" /\ results[z].category = "Junior")
                   => Val(results[y].total_time) <= Val(results[z].total_time))
            => \A o \in DOMAIN results :
                  (results[o].status = "finished" /\ results[o].category = "Senior")
                  => Val(results[o].total_time) >= Val(results[y].total_time)

\* C19: after every ranking pass and after every mark_dnf / mark_dns, each row
\* of results whose status is neither finished nor started has overall_rank,
\* category_rank and gender_rank all None.
C19_UnrankedRowsHaveNoRanks ==
    \A i \in DOMAIN results :
        results[i].status \notin {"finished", "started"}
        => /\ results[i].overall_rank = None
           /\ results[i].category_rank = None
           /\ results[i].gender_rank = None

\* the entrant, who has a TimeRecord at the start and so was ranked by the
\* pass that made the row, has just been marked and has no rank any more,
\* while the pass of the mark ranked another row
C19_Witness ==
    /\ last.op = "mark" /\ last.epc = Entrant
    /\ \E k \in DOMAIN time_records :
          /\ time_records[k].participant_id = Entrant
          /\ timing_points[time_records[k].timing_point_id].is_start
    /\ \E i \in DOMAIN results :
          /\ results[i].participant_id = Entrant
          /\ results[i].status = "dnf"
          /\ results[i].overall_rank = None
          /\ results[i].category_rank = None
          /\ results[i].gender_rank = None
    /\ \E j \in DOMAIN results : results[j].overall_rank = Some(1)

\* C20: among the started rows the ranking pass orders by progress: the row
\* whose participant reached a higher sequence order has the smaller
\* overall_rank; of two that reached the same order, the one that arrived
\* there earlier has the smaller rank; a started participant with no
\* TimeRecord ranks after every started participant that has one.
C20_StartedByProgress ==
    \A i, j \in DOMAIN results :
        (/\ results[i].status = "started" /\ results[j].status = "started"
         /\ Progress(time_records, results[i].participant_id) # <<>>
         /\ \/ Progress(time_records, results[j].participant_id) = <<>>
            \/ Progress(time_records, results[i].participant_id)[1]
                 > Progress(time_records, results[j].participant_id)[1]
            \/ /\ Progress(time_records, results[i].participant_id)[1]
                    = Progress(time_records, results[j].participant_id)[1]
               /\ Progress(time_records, results[i].participant_id)[2]
                    < Progress(time_records, results[j].participant_id)[2])
        => /\ results[i].overall_rank # None /\ results[j].overall_rank # None
           /\ Val(results[i].overall_rank) < Val(results[j].overall_rank)

\* three started rows ranked against their row order: the first has no
\* TimeRecord, the second and the third reached the same timing point, the
\* third earlier
C20_Witness ==
    /\ last.op = "calculate_results"
    /\ Len(results) = 3
    /\ \A i \in 1..3 : results[i].status = "started" /\ results[i].participant_id = i
    /\ Progress(time_records, 1) = <<>>
    /\ Progress(time_records, 2) # <<>> /\ Progress(time_records, 3) # <<>>
    /\ Progress(time_records, 2)[1] = Progress(time_records, 3)[1]
    /\ Progress(time_records, 3)[2] < Progress(time_records, 2)[2]
    /\ results[1].overall_rank = Some(3)
    /\ results[2].overall_rank = Some(2)
    /\ results[3].overall_rank = Some(1)

-----------------------------------------------------------------------------
(* Claims about the ranking pass, checked under SpecRank *)

\* C7: right after calculate_results, running calculate_results again leaves
\* every result row as it is.
C7_RecalculateIdempotent ==
    last.op = "calculate_results" => calculate_results(time_records, results) = results

====
